---- MODULE Spec2Model ----
(***************************************************************************)
(* Model of the nightwatch batch-audit lifecycle (src/nightwatch/runner.py): *)
(* submit_audit writes the pending-batch ledger, retrieve_audit polls the    *)
(* batches recorded in it and removes it.  The provider, the file system    *)
(* that is scanned for files and the notification channel are the           *)
(* environment: their answers are drawn nondeterministically.               *)
(***************************************************************************)
EXTENDS Integers, Sequences, FiniteSets, TLC

----------------------------------------------------------------------------
(* Bounds of the model                                                      *)

MaxBatches == 2      \* batch ids the provider hands out in one behaviour
MaxSubmits == 2      \* submit_audit and run_audit invocations that get past
                     \* validation
MaxFaults  == 1      \* collaborator calls and decodings that raise in one behaviour
MaxFindings == 2     \* entries of data["findings"] in one provider response
MaxLines == 2        \* lines of a batch job's output file

----------------------------------------------------------------------------
(* Constants of the program and of its configuration                        *)

None == "None"                     \* Python's None as an argument

FOCUS_AREAS == {"security", "docs", "patterns"}
PROVIDERS == {"anthropic"}

\* config.repos, in configured order
Repos == <<"alpha", "beta">>

\* The configurations a behaviour may run under: the provider configured for
\* each repo (config.get_provider_for_repo).
Configs ==
    { [alpha |-> "anthropic", beta |-> "anthropic"],
      [alpha |-> "anthropic", beta |-> "openai"] }

\* config.notifications, by channel
Notifications == <<"telegram", "email">>

\* Arguments the entry points are called with
FocusArgs == {None, "security", "off", "style"}
TodayFocus == {"docs", "off"}              \* config.get_today_focus()
RepoArgs == {None, "alpha", "beta", "gamma"}
ProviderArgs == {None, "anthropic", "openai"}
FileCounts == {0, 1}                       \* len(focus.gather_files(...))

BatchIds == 1..MaxBatches

----------------------------------------------------------------------------
(* The ledger file: json.dumps / json.loads                                 *)

\* A JSON object is the sequence of its <<key, value>> members, in insertion
\* order; a JSON array is a sequence.
DumpsBatchMutNextId(b) ==
    << <<"repo", b.repo>>, <<"batch_id", (b.batch_id % MaxBatches) + 1>>,
       <<"provider", b.provider>> >>
DumpsBatch(b) ==
    << <<"repo", b.repo>>, <<"batch_id", b.batch_id>>, <<"provider", b.provider>> >>

Dumps(p) ==
    << <<"submitted_at", p.submitted_at>>,
       <<"focus", p.focus>>,
       <<"batches", [i \in 1..Len(p.batches) |-> DumpsBatch(p.batches[i])]>> >>

\* obj[key] on a decoded JSON object
Member(obj, key) == obj[CHOOSE i \in 1..Len(obj) : obj[i][1] = key][2]

\* A decoded JSON object is a dict of the members the text holds
LoadsBatch(o) == [k \in {o[i][1] : i \in 1..Len(o)} |-> Member(o, k)]

LoadsMutFirstBatch(text) ==
    [submitted_at |-> Member(text, "submitted_at"),
     focus |-> Member(text, "focus"),
     batches |-> [i \in 1..(IF Member(text, "batches") = <<>> THEN 0 ELSE 1) |->
                     LoadsBatch(Member(text, "batches")[i])]]
LoadsMutReversed(text) ==
    [submitted_at |-> Member(text, "submitted_at"),
     focus |-> Member(text, "focus"),
     batches |-> [i \in 1..Len(Member(text, "batches")) |->
                     LoadsBatch(Member(text, "batches")
                                    [Len(Member(text, "batches")) + 1 - i])]]
Loads(text) ==
    [submitted_at |-> Member(text, "submitted_at"),
     focus |-> Member(text, "focus"),
     batches |-> [i \in 1..Len(Member(text, "batches")) |->
                     LoadsBatch(Member(text, "batches")[i])]]

NoFile == [exists |-> FALSE, text |-> <<>>]
File(text) == [exists |-> TRUE, text |-> text]

\* A file json.loads raises JSONDecodeError on: the empty file
Undecodable == <<>>
Decodes(text) == text # Undecodable

\* _retrieve_repo: batch_info["repo"], batch_info["batch_id"],
\* batch_info["provider"]
RequiredKeys == {"repo", "batch_id", "provider"}
HasKeys(batch_info) == RequiredKeys \subseteq DOMAIN batch_info

\* retrieve_audit: path.exists()
PathExistsMutNever(file) == FALSE
PathExists(file) == file.exists

----------------------------------------------------------------------------
(* Decisions of the code                                                    *)

\* submit_audit: focus_name or config.get_today_focus()
EffectiveFocus(focus_name, today) == IF focus_name = None THEN today ELSE focus_name

\* submit_audit: repos = [r for r in repos if r.name == repo_name]
SelectReposMutFallback(repo_name) ==
    IF repo_name = None \/ SelectSeq(Repos, LAMBDA r : r = repo_name) = <<>>
    THEN Repos
    ELSE SelectSeq(Repos, LAMBDA r : r = repo_name)
SelectRepos(repo_name) ==
    IF repo_name = None THEN Repos
    ELSE SelectSeq(Repos, LAMBDA r : r = repo_name)

\* submit_audit: neither "off" nor a ValueError
Validates(focus_name, today, repo_name) ==
    /\ EffectiveFocus(focus_name, today) \in FOCUS_AREAS
    /\ SelectRepos(repo_name) # <<>>

\* _submit_repo, _run_repo_sync: if not files
NoFilesMutNever(nfiles) == FALSE
NoFiles(nfiles) == nfiles = 0

\* _submit_repo, _run_repo_sync: if dry_run
IsDryRunMutNever(dry_run) == FALSE
IsDryRun(dry_run) == dry_run

\* _run_repo_sync: the provider tag of the result returned before a provider
\* is looked up, "" when the audit goes on
EarlyResultMutDryRunFirst(nfiles, dry_run) ==
    IF IsDryRun(dry_run) THEN "dry-run" ELSE IF NoFiles(nfiles) THEN "none" ELSE ""
EarlyResult(nfiles, dry_run) ==
    IF NoFiles(nfiles) THEN "none" ELSE IF IsDryRun(dry_run) THEN "dry-run" ELSE ""

\* run_audit, _run_repo_sync: no statement names PENDING_BATCH_FILE, the file
\* stays what it is
RunLedgerMutUnlink(file) == [exists |-> FALSE, text |-> <<>>]
RunLedger(file) == file

\* _submit_repo: provider_name or config.get_provider_for_repo(repo.name)
ProviderFor(provider_name, cfg, repo) ==
    IF provider_name # None THEN provider_name ELSE cfg[repo]

\* What an invocation did, in order: the calls it made to its collaborators,
\* each <<operation, repo, n>> with n the number of files gather_files
\* returned (0 for the other operations)
Did(log, op, repo) == \E i \in 1..Len(log) : log[i][1] = op /\ log[i][2] = repo
Gathered(log, repo, n) == \E i \in 1..Len(log) : log[i] = <<"gather_files", repo, n>>

\* models.AuditResult: the number of findings of a result constructed without
\* findings (the field defaults to the empty list)
DefaultFindings == 0

\* submit_audit: if pending["batches"] and not dry_run
ShouldSaveMutInverted(batches, dry_run) == batches # <<>> /\ dry_run
ShouldSaveMutAnyRun(batches, dry_run) == ~dry_run
ShouldSave(batches, dry_run) == batches # <<>> /\ ~dry_run

\* submit_audit: pending_path.write_text(json.dumps(pending, indent=2))
WriteTextMutAppend(old, pending) ==
    IF old.exists
    THEN File(Dumps([pending EXCEPT !.batches = Loads(old.text).batches \o @]))
    ELSE File(Dumps(pending))
WriteText(old, pending) == File(Dumps(pending))

\* _retrieve_repo: result["status"] != "ended"
StillProcessing(status) == status # "ended"

\* retrieve_audit: if results: path.unlink(missing_ok=True)
ShouldUnlinkMutAlways(results) == TRUE
ShouldUnlink(results) == results # <<>>

\* _retrieve_repo: the telegram notifications of config.notifications
TelegramCount ==
    Cardinality({i \in 1..Len(Notifications) : Notifications[i] = "telegram"})

IdsOf(batches) == {batches[i].batch_id : i \in 1..Len(batches)}

----------------------------------------------------------------------------
(* The provider's response, decoded: JSON values and Python's operations on *)
(* them                                                                     *)

\* A JSON value is null, a string or an integer; json.loads turns null into
\* Python's None.  A JSON object is a function from the keys it has.
Null == [null |-> TRUE]
JStr(s) == [str |-> s]
JInt(n) == [int |-> n]
NoKey == [k \in {} |-> Null]

\* dict.get(key, default)
Get(dict, key, default) == IF key \in DOMAIN dict THEN dict[key] ELSE default

\* bool(value)
Truthy(v) == v # Null /\ v # JStr("") /\ v # JInt(0)

\* a or b
OrMutSecond(a, b) == IF Truthy(b) THEN b ELSE a
Or(a, b) == IF Truthy(a) THEN a ELSE b

\* f"{value}"
Str(v) ==
    IF "int" \in DOMAIN v THEN ToString(v.int)
    ELSE IF "str" \in DOMAIN v THEN v.str
    ELSE "None"

\* hashlib.sha256(key.encode()).hexdigest()[:12], taken as injective: a digest
\* is identified with the key string it was computed from
Sha256(key) == key

\* GeminiProvider._make_finding_id
MakeFindingIdMutDescription(raw) ==
    Sha256(Str(raw.file) \o ":" \o Str(raw.title) \o ":" \o Str(raw.description))
MakeFindingId(raw) ==
    LET key == Str(raw.file) \o ":" \o Str(raw.title) \o ":"
                   \o Str(Get(raw, "line", JStr("")))
    IN  IF Truthy(Get(raw, "focus", Null))
        THEN Sha256(Str(raw.focus) \o ":" \o key)
        ELSE Sha256(key)

\* AnthropicProvider._make_finding_id
AnthropicFindingId(raw) ==
    Sha256(Str(raw.file) \o ":" \o Str(raw.title) \o ":"
               \o Str(Get(raw, "line", JStr(""))))

\* GeminiProvider._parse_text, _parse_response: the Finding made of one entry
\* of data["findings"]
MakeFinding(f, default_focus) ==
    [id |-> MakeFindingId(f),
     severity |-> f.severity,
     file |-> f.file,
     line |-> Get(f, "line", Null),
     title |-> f.title,
     description |-> f.description,
     suggestion |-> Get(f, "suggestion", Null),
     focus |-> Or(Get(f, "focus", Null), default_focus)]

\* GeminiProvider._parse_text on the decoded text: for f in data["findings"]
ParseText(data, default_focus) ==
    [i \in 1..Len(data) |-> MakeFinding(data[i], default_focus)]

\* retrieve_batch: findings after a line of the output file, the line's
\* candidates[0].content.parts[0].text parsed when it has one
LineFindingsMutExtend(findings, line, default_focus) ==
    IF line.response.candidates
    THEN findings \o ParseText(line.response.text, default_focus)
    ELSE findings
LineFindings(findings, line, default_focus) ==
    IF line.response.candidates
    THEN ParseText(line.response.text, default_focus)
    ELSE findings

\* Terminal batch states
GEMINI_TERMINAL_STATES ==
    {"JOB_STATE_SUCCEEDED", "JOB_STATE_FAILED", "JOB_STATE_CANCELLED"}

\* batch_job.state.name
JobStates ==
    GEMINI_TERMINAL_STATES \cup {"JOB_STATE_PENDING", "JOB_STATE_RUNNING", "JOB_STATE_EXPIRED"}

\* retrieve_batch: is_done
IsDoneMutSucceeded(state_name) == state_name = "JOB_STATE_SUCCEEDED"
IsDone(state_name) == state_name \in GEMINI_TERMINAL_STATES

\* retrieve_batch: succeeded, errored, processing
RequestCountsMutErrored(state_name) ==
    [processing |-> IF IsDone(state_name) THEN 0 ELSE 1,
     succeeded |-> IF state_name = "JOB_STATE_SUCCEEDED" THEN 1 ELSE 0,
     errored |-> IF IsDone(state_name) THEN 1 ELSE 0]
RequestCounts(state_name) ==
    [processing |-> IF IsDone(state_name) THEN 0 ELSE 1,
     succeeded |-> IF state_name = "JOB_STATE_SUCCEEDED" THEN 1 ELSE 0,
     errored |-> IF state_name \in {"JOB_STATE_FAILED", "JOB_STATE_CANCELLED"}
                 THEN 1 ELSE 0]

\* retrieve_batch: result = {...}
BatchResult(state_name) ==
    [status |-> IF IsDone(state_name) THEN "ended" ELSE "processing",
     request_counts |-> RequestCounts(state_name)]

\* result["findings"] = findings
WithFindings(result, findings) == result @@ ("findings" :> findings)

\* GeminiProvider.__init__: self._last_usage
ZeroUsage ==
    [input_tokens |-> 0, output_tokens |-> 0, cache_read_tokens |-> 0,
     cache_write_tokens |-> 0]

\* retrieve_batch: the _last_usage made of a line's usageMetadata
BatchUsage(usage) ==
    [input_tokens |-> Or(Get(usage, "promptTokenCount", JInt(0)), JInt(0)).int,
     output_tokens |-> Or(Get(usage, "candidatesTokenCount", JInt(0)), JInt(0)).int,
     cache_read_tokens |-> Or(Get(usage, "cachedContentTokenCount", JInt(0)), JInt(0)).int,
     cache_write_tokens |-> 0]

\* run_audit: the _last_usage made of response.usage_metadata
SyncUsage(usage_metadata) ==
    [input_tokens |-> Or(usage_metadata.prompt_token_count, JInt(0)).int,
     output_tokens |-> Or(usage_metadata.candidates_token_count, JInt(0)).int,
     cache_read_tokens |->
         Or(Get(usage_metadata, "cached_content_input_token_count", JInt(0)), JInt(0)).int,
     cache_write_tokens |-> 0]

\* response.get("usageMetadata", {}) of a line of the output file
UsageMetadatas ==
    { NoKey,
      [promptTokenCount |-> JInt(5), candidatesTokenCount |-> JInt(3)],
      [promptTokenCount |-> JInt(7), candidatesTokenCount |-> Null,
       cachedContentTokenCount |-> JInt(2)] }

\* response.usage_metadata of generate_content, None when there is none
SyncUsageMetadatas ==
    { Null,
      [prompt_token_count |-> JInt(4), candidates_token_count |-> JInt(1)],
      [prompt_token_count |-> JInt(6), candidates_token_count |-> Null,
       cached_content_input_token_count |-> JInt(2)] }

\* The raw findings a response is made of.  FINDING_SCHEMA requires severity,
\* file, title and description; line, suggestion and focus may be left out or
\* be null.
Optional(key, values) == {NoKey} \cup {key :> v : v \in values}

Locations ==
    { [file |-> JStr("a:b"), title |-> JStr("t")],
      [file |-> JStr("a"), title |-> JStr("b:t")] }

Wordings ==
    { [severity |-> JStr("high"), description |-> JStr("x")],
      [severity |-> JStr("low"), description |-> JStr("y")] @@ ("suggestion" :> JStr("s")) }

RawFindings ==
    { loc @@ w @@ l @@ fo :
        loc \in Locations, w \in Wordings,
        l \in Optional("line", {Null, JInt(7)}),
        fo \in Optional("focus", {Null, JStr(""), JStr("docs")}) }

DefaultFocuses == {Null, JStr("docs"), JStr("security")}     \* default_focus

\* The decoded texts of the responses of a batch job and of generate_content
SampleFindings ==
    {f \in RawFindings : f.file = JStr("a:b") /\ "line" \notin DOMAIN f
                            /\ f.severity = JStr("high")}
ResponseTexts == {<<>>} \cup {<<f>> : f \in SampleFindings}

\* The lines of a job's output file: a blank line, or an entry with or without
\* candidates and usage metadata
NoCandidates == [candidates |-> FALSE, text |-> <<>>]
Candidate(text) == [candidates |-> TRUE, text |-> text]
Blank == [blank |-> TRUE]
OutputLines ==
    {Blank} \cup
    { [response |-> c, usageMetadata |-> u] :
        c \in {NoCandidates} \cup {Candidate(t) : t \in ResponseTexts},
        u \in UsageMetadatas }

----------------------------------------------------------------------------
(* scripts/benchmark_analyze.py: values                                     *)

\* A float is the exact fraction num / den; costs are counted in cents.
Frac(n, d) == [num |-> n, den |-> d]
One == Frac(1, 1)                                  \* 1.0
ZeroDivisionError == [raised |-> "ZeroDivisionError"]

\* a / b on numbers
Div(n, d) == IF d = 0 THEN ZeroDivisionError ELSE Frac(n, d)
\* x / y on floats
FracDiv(x, y) == Div(x.num * y.den, x.den * y.num)
\* x * 0.5
HalfMutWhole(x) == x
Half(x) == Frac(x.num, x.den * 2)
\* x == y, x > 0 on floats
FracEq(x, y) == x.num * y.den = y.num * x.den
Positive(x) == x.num > 0

RECURSIVE SumSeq(_)
SumSeq(values) == IF values = <<>> THEN 0 ELSE Head(values) + SumSeq(Tail(values))

\* x + y and sum(values) on floats
Zero == Frac(0, 1)                                 \* 0.0
FracAdd(x, y) == Frac(x.num * y.den + y.num * x.den, x.den * y.den)
RECURSIVE SumFracs(_)
SumFracs(values) ==
    IF values = <<>> THEN Zero ELSE FracAdd(Head(values), SumFracs(Tail(values)))

\* jaccard_similarity: if not set_a and not set_b
BothEmptyMutNever(set_a, set_b) == FALSE
BothEmpty(set_a, set_b) == set_a = {} /\ set_b = {}

JaccardSimilarityMutOfFirst(set_a, set_b) ==
    IF BothEmpty(set_a, set_b) THEN One
    ELSE Div(Cardinality(set_a \cap set_b),
             Cardinality(set_a \cup set_b) + Cardinality(set_a \ set_b))
JaccardSimilarity(set_a, set_b) ==
    IF BothEmpty(set_a, set_b) THEN One
    ELSE Div(Cardinality(set_a \cap set_b), Cardinality(set_a \cup set_b))

\* _safe_mean
SafeMean(values) ==
    IF values = <<>> THEN Null ELSE Div(SumSeq(values), Len(values))

\* _safe_mean on a list of floats
SafeMeanFloats(values) ==
    IF values = <<>> THEN Null
    ELSE FracDiv(SumFracs(values), Frac(Len(values), 1))

\* compute_run_metrics: high / total if total > 0 else 0.0
RunRateMutOne(total, high) == IF total > 0 THEN Div(high, total) ELSE One
RunRate(total, high) == IF total > 0 THEN Div(high, total) ELSE Zero

\* compute_run_metrics: r.get("duration_seconds") is not None
\*                      and r.get("duration_seconds", 0) > 0
HasDurationMutPresent(r) == Get(r, "duration_seconds", Null) # Null
HasDuration(r) ==
    /\ Get(r, "duration_seconds", Null) # Null
    /\ Positive(Get(r, "duration_seconds", Zero))

\* compute_run_metrics: key = (r["provider"], r["model"], r["repo"], r["focus"])
GroupKey(r) == <<r.provider, r.model, r.repo, r.focus>>
GroupKeys(results) == {GroupKey(results[i]) : i \in 1..Len(results)}
GroupRunsMutAll(results, key) == results
GroupRuns(results, key) == SelectSeq(results, LAMBDA r : GroupKey(r) = key)

\* sorted(runs, key=lambda x: x.get("run_number", 0)): a stable sort
RunNumber(r) == Get(r, "run_number", 0)
SortedRunsMutUnsorted(runs) == runs
SortedRuns(runs) ==
    LET before(i) == {j \in 1..Len(runs) :
                         \/ RunNumber(runs[j]) < RunNumber(runs[i])
                         \/ RunNumber(runs[j]) = RunNumber(runs[i]) /\ j < i}
    IN  [k \in 1..Len(runs) |->
            runs[CHOOSE i \in 1..Len(runs) : Cardinality(before(i)) = k - 1]]

\* {f["id"] for f in r.get("findings", [])}
FindingIds(r) ==
    {Get(r, "findings", <<>>)[i].id : i \in 1..Len(Get(r, "findings", <<>>))}

\* if len(runs_sorted) >= 2
ConsistencyDefinedMutThree(n) == n >= 3
ConsistencyDefined(n) == n >= 2

\* if avg_cost is not None and avg_findings is not None and avg_findings > 0
CostPerFindingDefinedMutAlways(avg_cost, avg_findings) == TRUE
CostPerFindingDefined(avg_cost, avg_findings) ==
    avg_cost # Null /\ avg_findings # Null /\ Positive(avg_findings)

\* The body of the loop over groups, for the metrics that depend on findings,
\* severity, consistency, cost and duration
RunMetrics(key, runs) ==
    LET runs_sorted == SortedRuns(runs)
        finding_counts == [i \in 1..Len(runs_sorted) |-> runs_sorted[i].findings_count]
        avg_findings == SafeMean(finding_counts)
        high_rates == [i \in 1..Len(runs_sorted) |->
                          RunRate(runs_sorted[i].findings_count,
                                  Get(runs_sorted[i], "high_severity_count", 0))]
        avg_high_rate == SafeMeanFloats(high_rates)
        timed == SelectSeq(runs_sorted, HasDuration)
        durations == [i \in 1..Len(timed) |-> timed[i].duration_seconds]
        avg_duration == SafeMeanFloats(durations)
        consistency ==
            IF ConsistencyDefined(Len(runs_sorted))
            THEN JaccardSimilarity(FindingIds(runs_sorted[1]), FindingIds(runs_sorted[2]))
            ELSE Null
        costs == [i \in 1..Len(runs_sorted) |-> Get(runs_sorted[i], "cost_usd", 0)]
        avg_cost == SafeMean(costs)
        cost_per_finding ==
            IF CostPerFindingDefined(avg_cost, avg_findings)
            THEN FracDiv(avg_cost, avg_findings)
            ELSE Null
        avg_sync_cost == avg_cost
        avg_batch_cost == IF avg_sync_cost # Null THEN Half(avg_sync_cost) ELSE Null
    IN  [provider |-> key[1], model |-> key[2], repo |-> key[3], focus |-> key[4],
         run_count |-> Len(runs_sorted),
         avg_findings |-> avg_findings,
         avg_high_severity_rate |-> avg_high_rate,
         avg_duration_seconds |-> avg_duration,
         consistency_jaccard |-> consistency,
         avg_cost_usd |-> avg_cost,
         avg_batch_cost_usd |-> avg_batch_cost,
         cost_per_finding_usd |-> cost_per_finding]

ComputeRunMetrics(results) ==
    [key \in GroupKeys(results) |-> RunMetrics(key, GroupRuns(results, key))]

\* compute_cross_model_unique: model_findings, a dict that holds a model once
\* a finding of it was added
ModelFindings(results) ==
    [model \in {results[i].model : i \in {j \in 1..Len(results) : FindingIds(results[j]) # {}}}
        |-> UNION {FindingIds(results[i]) :
                      i \in {j \in 1..Len(results) : results[j].model = model}}]

\* compute_cross_model_unique: other_ids, the ids of every other model
OtherIdsMutNone(model_findings, model) == {}
OtherIds(model_findings, model) ==
    UNION {model_findings[other] : other \in DOMAIN model_findings \ {model}}

ComputeCrossModelUnique(results) ==
    LET model_findings == ModelFindings(results)
    IN  [model \in DOMAIN model_findings |->
            model_findings[model] \ OtherIds(model_findings, model)]

\* load_results: data.setdefault("_source", str(path))
SetDefaultSource(data) ==
    IF "_source" \in DOMAIN data THEN data ELSE data @@ [_source |-> "run.json"]

\* load_results: what a file under results_dir holds
FileKinds == {"record", "invalid json", "unreadable", "array"}

\* Benchmark result records
MaxRuns == 3         \* result records passed to compute_run_metrics

Haiku == [provider |-> "anthropic", model |-> "claude-haiku-4-5",
          repo |-> "requests", focus |-> "security"]
Flash == [provider |-> "gemini", model |-> "gemini-2.0-flash",
          repo |-> "requests", focus |-> "security"]

IdPool == {"aaa", "bbb", "ccc"}
FindingOf(id) == [id |-> id, severity |-> "high"]
FindingLists ==
    {<<>>, <<FindingOf("aaa"), FindingOf("bbb")>>, <<FindingOf("bbb"), FindingOf("ccc")>>}
RunNumbers == {1, 2, 3}
Costs == {0, 10}

\* The first run of the model is the one whose cost varies; one record holds
\* the required fields only
ResultRecords ==
    UNION {{Haiku @@ [run_number |-> n, findings_count |-> Len(fs), cost_usd |-> c,
                      findings |-> fs] :
               fs \in FindingLists, c \in IF n = 1 THEN Costs ELSE {10}} :
           n \in RunNumbers}
    \cup {Haiku @@ [findings_count |-> 1]}
    \cup {Flash @@ [run_number |-> n, findings_count |-> 1, cost_usd |-> 5,
                    findings |-> <<FindingOf("aaa")>>] : n \in {1, 2}}

\* Result records with severity counts and durations
SeverityCounts ==
    {[findings_count |-> 0, high_severity_count |-> 0],
     [findings_count |-> 2, high_severity_count |-> 1],
     [findings_count |-> 3, high_severity_count |-> 3]}
Durations == {Null, Zero, Frac(4, 1), Frac(6, 1)}      \* seconds, floats
TimedRecords ==
    {Haiku @@ c @@ d : c \in SeverityCounts, d \in Optional("duration_seconds", Durations)}
    \cup {Haiku @@ [findings_count |-> 3, duration_seconds |-> Frac(-1, 1)]}
    \cup {Flash @@ [findings_count |-> 0, high_severity_count |-> 0, duration_seconds |-> Zero]}

----------------------------------------------------------------------------
(* State                                                                    *)

VARIABLES
    config,     \* provider configured for each repo
    ledger,     \* the file at PENDING_BATCH_FILE
    jobs,       \* provider side: state of each batch job
    issued,     \* provider side: number of batch ids handed out
    clock,      \* datetime.now(), counted in submit and run invocations
    faults,     \* collaborator calls and decodings that raised so far
    reports,    \* reports saved, per batch id
    notifs,     \* telegram notifications sent, per batch id
    observed,   \* batch ids some retrieval saw in the terminal state
    submitted,  \* what the submit_audit calls since the last retrieve_audit began
                \* returned, when they had submitted a batch
    spc,        \* submit_audit: position
    sArgs,      \* submit_audit: focus, provider_name, dry_run
    sRepos,     \* submit_audit: repos
    sIdx,       \* submit_audit: index of the repo the loop is at
    pending,    \* submit_audit: pending
    sExc,       \* submit_audit: the exception it raised
    sLog,       \* submit_audit: the calls it made to its collaborators
    sLedger0,   \* submit_audit: the ledger as it was at entry
    rpc,        \* retrieve_audit: position
    rPending,   \* retrieve_audit: pending, as read
    rIdx,       \* retrieve_audit: index of the batch the loop is at
    results,    \* retrieve_audit: results
    rPolls,     \* retrieve_audit: the retrieve_batch calls made and their answers
    rOut0,      \* retrieve_audit: reports and notifs as they were at entry
    rFound,     \* retrieve_audit: path.exists()
    rExc,       \* retrieve_audit: the exception it raised
    upc,        \* run_audit: position
    uArgs,      \* run_audit: focus, provider_name, dry_run
    uRepos,     \* run_audit: repos
    uIdx,       \* run_audit: index of the repo the loop is at
    uResults,   \* run_audit: results
    uExc,       \* run_audit: the exception it raised
    uLog,       \* run_audit: the calls it made to its collaborators
    uLedger0,   \* run_audit: the ledger as it was at entry
    pDefault,   \* _parse_text: default_focus
    pData,      \* _parse_text: the entries of data["findings"] the loop has taken
    pFindings,  \* _parse_text: findings
    gpc,        \* GeminiProvider: position of the call under way
    gOp,        \* GeminiProvider: the call, its caller and its arguments
    gResult,    \* retrieve_batch: result
    gFindings,  \* retrieve_batch: findings; run_audit: the findings returned
    gLines,     \* retrieve_batch: lines of the output file gone through
    gText,      \* retrieve_batch: text.splitlines() up to the line the loop is at
    gSeen,      \* the token counts the responses of this call carried, if any
    gUsage,     \* GeminiProvider._last_usage
    gAudit,     \* _retrieve_repo: what it did with the result of retrieve_batch
    bpc,        \* benchmark_analyze: position
    bResults,   \* benchmark_analyze: results, the records loaded
    bMetrics,   \* benchmark_analyze: metrics, as compute_run_metrics returned it
    jArgs,      \* jaccard_similarity: set_a, set_b
    jOut,       \* jaccard_similarity: the value returned
    bUnique,    \* benchmark_analyze: what compute_cross_model_unique returned
    bSkipped    \* load_results: files skipped with a warning

provVars == <<jobs, issued>>
outVars == <<reports, notifs, observed>>
subVars == <<spc, sArgs, sRepos, sIdx, pending, sExc, sLog, sLedger0>>
retVars == <<rpc, rPending, rIdx, results, rPolls, rFound, rExc, rOut0>>
runVars == <<upc, uArgs, uRepos, uIdx, uResults, uExc, uLog, uLedger0>>
runnerVars == <<config, ledger, provVars, clock, faults, outVars, submitted, subVars,
                retVars, runVars>>
parseVars == <<pDefault, pData, pFindings>>
gemVars == <<gpc, gOp, gResult, gFindings, gLines, gText, gSeen, gUsage, gAudit>>
benchVars == <<bpc, bResults, bMetrics, jArgs, jOut, bUnique, bSkipped>>
vars == <<runnerVars, parseVars, gemVars, benchVars>>

Done == {"idle", "returned", "raised"}

NoPending == [submitted_at |-> 0, focus |-> "", batches |-> <<>>]
NoOut == <<[b \in BatchIds |-> 0], [b \in BatchIds |-> 0]>>
NoArgs == [focus |-> "", provider_name |-> None, dry_run |-> FALSE]

RunnerInit ==
    /\ config \in Configs
    /\ ledger = NoFile
    /\ jobs = [b \in BatchIds |-> "none"]
    /\ issued = 0
    /\ clock = 0
    /\ faults = 0
    /\ reports = [b \in BatchIds |-> 0]
    /\ notifs = [b \in BatchIds |-> 0]
    /\ observed = {}
    /\ submitted = <<>>
    /\ spc = "idle"
    /\ sArgs = NoArgs
    /\ sRepos = <<>>
    /\ sIdx = 1
    /\ pending = NoPending
    /\ sExc = ""
    /\ sLog = <<>>
    /\ sLedger0 = NoFile
    /\ rpc = "idle"
    /\ rPending = NoPending
    /\ rIdx = 1
    /\ results = <<>>
    /\ rPolls = <<>>
    /\ rOut0 = NoOut
    /\ rFound = FALSE
    /\ rExc = ""
    /\ upc = "idle"
    /\ uArgs = NoArgs
    /\ uRepos = <<>>
    /\ uIdx = 1
    /\ uResults = <<>>
    /\ uExc = ""
    /\ uLog = <<>>
    /\ uLedger0 = NoFile

\* No _parse_text call is under way
ParserIdle == pDefault = Null /\ pData = <<>> /\ pFindings = <<>>

\* GeminiProvider.__init__, no call made yet
NoOp == [op |-> "", caller |-> "", state_name |-> "", default_focus |-> Null]
NoResult == [status |-> ""]
NoAudit == [done |-> FALSE, returned |-> "", findings |-> 0, reports |-> 0, notifs |-> 0]
NotSeen == [carried |-> FALSE, counts |-> ZeroUsage]

GeminiInit ==
    /\ gpc = "idle"
    /\ gOp = NoOp
    /\ gResult = NoResult
    /\ gFindings = <<>>
    /\ gLines = 0
    /\ gText = <<>>
    /\ gSeen = NotSeen
    /\ gUsage = ZeroUsage
    /\ gAudit = NoAudit

\* benchmark_analyze has not been run
NoMetrics == [key \in {} |-> Null]
NoSets == <<{}, {}>>

BenchIdle ==
    /\ bpc = "idle"
    /\ bResults = <<>>
    /\ bMetrics = NoMetrics
    /\ jArgs = NoSets
    /\ jOut = Null
    /\ bUnique = NoMetrics
    /\ bSkipped = 0

Init == RunnerInit /\ ParserIdle /\ GeminiInit /\ BenchIdle

\* The frame of a finished invocation is gone when the next invocation begins.
SubmitFrameGone ==
    IF spc \in Done
    THEN /\ spc' = "idle" /\ sArgs' = NoArgs /\ sRepos' = <<>> /\ sIdx' = 1
         /\ pending' = NoPending /\ sExc' = "" /\ sLog' = <<>>
         /\ sLedger0' = NoFile
    ELSE UNCHANGED subVars

RetrieveFrameGone ==
    IF rpc \in Done
    THEN /\ rpc' = "idle" /\ rPending' = NoPending /\ rIdx' = 1 /\ results' = <<>>
         /\ rPolls' = <<>> /\ rFound' = FALSE /\ rExc' = ""
         /\ rOut0' = NoOut
    ELSE UNCHANGED retVars

RunFrameGone ==
    IF upc \in Done
    THEN /\ upc' = "idle" /\ uArgs' = NoArgs /\ uRepos' = <<>> /\ uIdx' = 1
         /\ uResults' = <<>> /\ uExc' = "" /\ uLog' = <<>> /\ uLedger0' = NoFile
    ELSE UNCHANGED runVars

----------------------------------------------------------------------------
(* submit_audit                                                             *)

\* Entry up to the loop: focus and repo validation, pending = {...}
SubmitBegin(focus_name, today, repo_name, provider_name, dry_run) ==
    /\ spc \in Done
    /\ clock < MaxSubmits
    /\ LET f == EffectiveFocus(focus_name, today)
           repos == SelectRepos(repo_name)
           leave(pc, exc) ==
               /\ spc' = pc /\ sExc' = exc
               /\ sArgs' = NoArgs /\ sRepos' = <<>> /\ pending' = NoPending
               /\ UNCHANGED clock
       IN  /\ sIdx' = 1
           /\ sLog' = <<>>
           /\ sLedger0' = ledger
           /\ IF f = "off" THEN leave("returned", "")
              ELSE IF f \notin FOCUS_AREAS THEN leave("raised", "ValueError: focus")
              ELSE IF repo_name # None /\ repos = <<>>
              THEN leave("raised", "ValueError: repo")
              ELSE /\ spc' = "loop" /\ sExc' = ""
                   /\ sArgs' = [focus |-> f, provider_name |-> provider_name,
                                dry_run |-> dry_run]
                   /\ sRepos' = repos
                   /\ clock' = clock + 1
                   /\ pending' = [submitted_at |-> clock + 1, focus |-> f,
                                  batches |-> <<>>]
    /\ RetrieveFrameGone
    /\ RunFrameGone
    /\ UNCHANGED <<config, ledger, provVars, faults, outVars, submitted>>
    /\ UNCHANGED <<parseVars, gemVars, benchVars>>

\* One iteration of the loop: _submit_repo and the append
SubmitRepo(nfiles, raises) ==
    /\ spc = "loop"
    /\ sIdx <= Len(sRepos)
    /\ LET repo == sRepos[sIdx]
           pname == ProviderFor(sArgs.provider_name, config, repo)
           gathered == Append(sLog, <<"gather_files", repo, nfiles>>)
           constructed == Append(gathered, <<"construct provider", repo, 0>>)
           skip(log) == /\ sIdx' = sIdx + 1
                        /\ sLog' = log
                        /\ UNCHANGED <<spc, pending, sExc, provVars, faults>>
       IN  IF NoFiles(nfiles) THEN skip(gathered)
           ELSE IF IsDryRun(sArgs.dry_run) THEN skip(gathered)
           ELSE IF pname \notin PROVIDERS
           THEN /\ spc' = "raised" /\ sExc' = "ValueError: provider"
                /\ sLog' = gathered
                /\ UNCHANGED <<sIdx, pending, provVars, faults>>
           ELSE IF raises
           THEN \* provider.submit_batch raises
                /\ faults < MaxFaults
                /\ faults' = faults + 1
                /\ spc' = "raised" /\ sExc' = "ProviderError"
                /\ sLog' = Append(constructed, <<"submit_batch", repo, 0>>)
                /\ UNCHANGED <<sIdx, pending, provVars>>
           ELSE \* provider.submit_batch returns a new batch id
                /\ issued < MaxBatches
                /\ issued' = issued + 1
                /\ jobs' = [jobs EXCEPT ![issued + 1] = "processing"]
                /\ pending' = [pending EXCEPT !.batches =
                                  Append(@, [repo |-> repo, batch_id |-> issued + 1,
                                             provider |-> pname])]
                /\ sLog' = Append(constructed, <<"submit_batch", repo, 0>>)
                /\ sIdx' = sIdx + 1
                /\ UNCHANGED <<spc, sExc, faults>>
    /\ UNCHANGED <<config, ledger, clock, outVars, submitted, sArgs, sRepos,
                   sLedger0, retVars, runVars>>
    /\ UNCHANGED <<parseVars, gemVars, benchVars>>

\* After the loop: save the ledger, return pending.  Of the frame only the
\* returned value, pending, outlives the return.
SubmitSave ==
    /\ spc = "loop"
    /\ sIdx > Len(sRepos)
    /\ IF ShouldSave(pending.batches, sArgs.dry_run)
       THEN ledger' = WriteText(ledger, pending)
       ELSE UNCHANGED ledger
    /\ submitted' = IF pending.batches # <<>> THEN Append(submitted, pending)
                    ELSE submitted
    /\ spc' = "returned"
    /\ sArgs' = NoArgs /\ sRepos' = <<>> /\ sIdx' = 1 /\ sLog' = <<>>
    /\ sLedger0' = ledger'
    /\ UNCHANGED <<config, provVars, clock, faults, outVars, pending, sExc, retVars,
                   runVars>>
    /\ UNCHANGED <<parseVars, gemVars, benchVars>>

----------------------------------------------------------------------------
(* retrieve_audit                                                           *)

\* Entry up to the loop: path.exists(), json.loads(path.read_text())
RetrieveBegin ==
    /\ rpc \in Done
    /\ rFound' = PathExists(ledger)
    /\ rIdx' = 1
    /\ results' = <<>>
    /\ rPolls' = <<>>
    /\ rOut0' = <<reports, notifs>>
    /\ submitted' = <<>>
    /\ IF ~PathExists(ledger)
       THEN /\ rpc' = "returned" /\ rPending' = NoPending /\ rExc' = ""
            /\ UNCHANGED faults
       ELSE IF ~Decodes(ledger.text)
       THEN \* json.loads raises
            /\ faults < MaxFaults
            /\ faults' = faults + 1
            /\ rpc' = "raised" /\ rPending' = NoPending /\ rExc' = "JSONDecodeError"
       ELSE /\ rpc' = "loop" /\ rPending' = Loads(ledger.text) /\ rExc' = ""
            /\ UNCHANGED faults
    /\ SubmitFrameGone
    /\ RunFrameGone
    /\ UNCHANGED <<config, ledger, provVars, clock, outVars>>
    /\ UNCHANGED <<parseVars, gemVars, benchVars>>

\* One iteration of the loop: _retrieve_repo and the append
RetrieveRepo(outcome) ==
    /\ rpc = "loop"
    /\ rIdx <= Len(rPending.batches)
    /\ LET bi == rPending.batches[rIdx]
           b == bi.batch_id
           \* what provider.retrieve_batch(batch_id) answers
           status == IF outcome = "poll raises" THEN "raised" ELSE jobs[b]
           result == [repo |-> bi.repo, focus |-> rPending.focus,
                      provider |-> bi.provider]
       IN  IF ~HasKeys(bi)
           THEN \* batch_info[...] raises KeyError
                /\ outcome = "ok"
                /\ faults < MaxFaults
                /\ faults' = faults + 1
                /\ rpc' = "raised" /\ rExc' = "KeyError"
                /\ UNCHANGED <<rIdx, results, rPolls, observed, reports, notifs>>
           ELSE /\ rPolls' = Append(rPolls, [batch_id |-> b, status |-> status])
                /\ observed' = IF status = "ended" THEN observed \cup {b} ELSE observed
                /\ IF outcome = "poll raises"
                   THEN /\ faults < MaxFaults
                        /\ faults' = faults + 1
                        /\ rpc' = "raised" /\ rExc' = "ProviderError"
                        /\ UNCHANGED <<rIdx, results, reports, notifs>>
                   ELSE IF StillProcessing(status)
                   THEN /\ outcome = "ok"
                        /\ rIdx' = rIdx + 1
                        /\ UNCHANGED <<rpc, rExc, results, reports, notifs, faults>>
                   ELSE \* terminal: the report is saved, then notifications go out
                        /\ reports' = [reports EXCEPT ![b] = @ + 1]
                        /\ IF outcome = "send raises"
                           THEN \* send_telegram raises
                                /\ TelegramCount > 0
                                /\ faults < MaxFaults
                                /\ faults' = faults + 1
                                /\ rpc' = "raised" /\ rExc' = "SendError"
                                /\ UNCHANGED <<rIdx, results, notifs>>
                           ELSE /\ notifs' = [notifs EXCEPT ![b] = @ + TelegramCount]
                                /\ results' = Append(results, result)
                                /\ rIdx' = rIdx + 1
                                /\ UNCHANGED <<rpc, rExc, faults>>
    /\ UNCHANGED <<config, ledger, provVars, clock, submitted, subVars, rPending,
                   rFound, rOut0, runVars>>
    /\ UNCHANGED <<parseVars, gemVars, benchVars>>

\* After the loop: clean up the pending file, return results
RetrieveFinish ==
    /\ rpc = "loop"
    /\ rIdx > Len(rPending.batches)
    /\ IF ShouldUnlink(results)
       THEN ledger' = NoFile
       ELSE UNCHANGED ledger
    /\ rpc' = "returned"
    /\ UNCHANGED <<config, provVars, clock, faults, outVars, submitted, subVars,
                   rPending, rIdx, results, rPolls, rFound, rExc, rOut0, runVars>>
    /\ UNCHANGED <<parseVars, gemVars, benchVars>>

----------------------------------------------------------------------------
(* run_audit                                                                *)

\* Entry up to the loop: focus and repo validation, results = []
RunBegin(focus_name, today, repo_name, provider_name, dry_run) ==
    /\ upc \in Done
    /\ clock < MaxSubmits
    /\ LET f == EffectiveFocus(focus_name, today)
           repos == SelectRepos(repo_name)
           leave(pc, exc) ==
               /\ upc' = pc /\ uExc' = exc
               /\ uArgs' = NoArgs /\ uRepos' = <<>>
               /\ UNCHANGED clock
       IN  /\ uIdx' = 1
           /\ uLog' = <<>>
           /\ uResults' = <<>>
           /\ uLedger0' = ledger
           /\ IF f = "off" THEN leave("returned", "")
              ELSE IF f \notin FOCUS_AREAS THEN leave("raised", "ValueError: focus")
              ELSE IF repo_name # None /\ repos = <<>>
              THEN leave("raised", "ValueError: repo")
              ELSE /\ upc' = "loop" /\ uExc' = ""
                   /\ uArgs' = [focus |-> f, provider_name |-> provider_name,
                                dry_run |-> dry_run]
                   /\ uRepos' = repos
                   /\ clock' = clock + 1
    /\ SubmitFrameGone
    /\ RetrieveFrameGone
    /\ ledger' = RunLedger(ledger)
    /\ UNCHANGED <<config, provVars, faults, outVars, submitted>>
    /\ UNCHANGED <<parseVars, gemVars, benchVars>>

\* One iteration of the loop: _run_repo_sync and the append
RunRepo(nfiles, nfindings, outcome) ==
    /\ upc = "loop"
    /\ uIdx <= Len(uRepos)
    /\ LET repo == uRepos[uIdx]
           pname == ProviderFor(uArgs.provider_name, config, repo)
           gathered == Append(uLog, <<"gather_files", repo, nfiles>>)
           constructed == Append(gathered, <<"construct provider", repo, 0>>)
           audited == Append(constructed, <<"run_audit", repo, 0>>)
           saved == Append(audited, <<"save_report", repo, 0>>)
           sent == IF TelegramCount > 0
                   THEN Append(saved, <<"send_telegram", repo, 0>>) ELSE saved
           AuditResult(provider, findings) ==
               [repo |-> repo, focus |-> uArgs.focus, provider |-> provider,
                findings |-> findings]
           return(log, result) ==
               /\ outcome = "ok"
               /\ uLog' = log
               /\ uResults' = Append(uResults, result)
               /\ uIdx' = uIdx + 1
               /\ UNCHANGED <<upc, uExc, faults>>
           raise(log, exc) ==
               /\ upc' = "raised" /\ uExc' = exc
               /\ uLog' = log
               /\ UNCHANGED <<uIdx, uResults>>
           early == EarlyResult(nfiles, uArgs.dry_run)
       IN  IF early # "" THEN return(gathered, AuditResult(early, DefaultFindings))
           ELSE IF pname \notin PROVIDERS
           THEN \* PROVIDERS[pname]
                /\ outcome = "ok"
                /\ raise(gathered, "KeyError") /\ UNCHANGED faults
           ELSE IF outcome = "audit raises"
           THEN /\ faults < MaxFaults /\ faults' = faults + 1
                /\ raise(audited, "ProviderError")
           ELSE IF outcome = "send raises"
           THEN /\ TelegramCount > 0
                /\ faults < MaxFaults /\ faults' = faults + 1
                /\ raise(sent, "SendError")
           ELSE return(sent, AuditResult(pname, nfindings))
    /\ ledger' = RunLedger(ledger)
    /\ UNCHANGED <<config, provVars, clock, outVars, submitted, subVars, retVars,
                   uArgs, uRepos, uLedger0>>
    /\ UNCHANGED <<parseVars, gemVars, benchVars>>

\* After the loop: return results.  Of the frame only the returned value,
\* results, outlives the return.
RunReturn ==
    /\ upc = "loop"
    /\ uIdx > Len(uRepos)
    /\ upc' = "returned"
    /\ uArgs' = NoArgs /\ uRepos' = <<>> /\ uIdx' = 1 /\ uLog' = <<>>
    /\ ledger' = RunLedger(ledger)
    /\ UNCHANGED <<config, provVars, clock, faults, outVars, submitted, subVars,
                   retVars, uResults, uExc, uLedger0>>
    /\ UNCHANGED <<parseVars, gemVars, benchVars>>

----------------------------------------------------------------------------
(* GeminiProvider._parse_text                                               *)

\* Entry: the call is made with some default_focus, findings = []
ParseInit ==
    /\ RunnerInit /\ config.beta \in PROVIDERS
    /\ GeminiInit
    /\ BenchIdle
    /\ pDefault \in DefaultFocuses
    /\ pData = <<>>
    /\ pFindings = <<>>

\* One iteration of the loop over data["findings"]
ParseFinding(f) ==
    /\ Len(pData) < MaxFindings
    /\ pData' = Append(pData, f)
    /\ pFindings' = Append(pFindings, MakeFinding(f, pDefault))
    /\ UNCHANGED <<benchVars, runnerVars, pDefault, gemVars>>

----------------------------------------------------------------------------
(* GeminiProvider: run_audit, retrieve_batch, and _retrieve_repo on top of   *)
(* retrieve_batch                                                           *)

\* run_audit: generate_content, the usage of the response, _parse_response
GeminiRunAudit(text, usage_metadata, default_focus) ==
    /\ gpc \in Done
    /\ gOp' = [op |-> "run_audit", caller |-> "direct", state_name |-> "",
               default_focus |-> default_focus]
    /\ IF usage_metadata # Null
       THEN /\ gUsage' = SyncUsage(usage_metadata)
            /\ gSeen' = [carried |-> TRUE, counts |-> SyncUsage(usage_metadata)]
       ELSE /\ UNCHANGED gUsage
            /\ gSeen' = NotSeen
    /\ gFindings' = ParseText(text, default_focus)
    /\ gpc' = "returned"
    /\ gResult' = NoResult /\ gLines' = 0 /\ gText' = <<>> /\ gAudit' = NoAudit
    /\ UNCHANGED <<benchVars, runnerVars, parseVars>>

\* retrieve_batch up to the loop over the lines of the output file.  Called
\* by _retrieve_repo it runs on a provider constructed for the call, with no
\* default_focus.
GeminiRetrieveBegin(caller, state_name, default_focus, download_raises) ==
    /\ gpc \in Done
    /\ caller = "_retrieve_repo" => default_focus = Null
    /\ download_raises => state_name = "JOB_STATE_SUCCEEDED"
    /\ gOp' = [op |-> "retrieve_batch", caller |-> caller, state_name |-> state_name,
               default_focus |-> default_focus]
    /\ gUsage' = IF caller = "_retrieve_repo" THEN ZeroUsage ELSE gUsage
    /\ gSeen' = NotSeen
    /\ gFindings' = <<>>
    /\ gLines' = 0
    /\ gText' = <<>>
    /\ gAudit' = NoAudit
    /\ IF state_name = "JOB_STATE_SUCCEEDED"
       THEN /\ gResult' = BatchResult(state_name)
            /\ gpc' = IF download_raises THEN "raised" ELSE "lines"
       ELSE IF IsDone(state_name)
       THEN /\ gResult' = WithFindings(BatchResult(state_name), <<>>)
            /\ gpc' = "returned"
       ELSE /\ gResult' = BatchResult(state_name)
            /\ gpc' = "returned"
    /\ UNCHANGED <<benchVars, runnerVars, parseVars>>

\* One iteration of the loop over text.splitlines()
GeminiRetrieveLine(line) ==
    /\ gpc = "lines"
    /\ gLines < MaxLines
    /\ gLines' = gLines + 1
    /\ gText' = Append(gText, line)
    /\ IF line = Blank
       THEN UNCHANGED <<gFindings, gUsage, gSeen>>
       ELSE /\ gFindings' = LineFindings(gFindings, line, gOp.default_focus)
            /\ IF line.usageMetadata # NoKey
               THEN /\ gUsage' = BatchUsage(line.usageMetadata)
                    /\ gSeen' = [carried |-> TRUE,
                                 counts |-> BatchUsage(line.usageMetadata)]
               ELSE UNCHANGED <<gUsage, gSeen>>
    /\ UNCHANGED <<benchVars, runnerVars, parseVars, gpc, gOp, gResult, gAudit>>

\* After the loop: result["findings"] = findings, return result
GeminiRetrieveEnd ==
    /\ gpc = "lines"
    /\ gResult' = WithFindings(gResult, gFindings)
    /\ gpc' = "returned"
    /\ UNCHANGED <<benchVars, runnerVars, parseVars, gOp, gFindings, gLines, gText, gSeen,
                   gUsage, gAudit>>

\* _retrieve_repo, from the return of retrieve_batch on
GeminiRepoResult ==
    /\ gpc = "returned"
    /\ gOp.caller = "_retrieve_repo"
    /\ ~gAudit.done
    /\ gAudit' =
          IF StillProcessing(gResult.status)
          THEN [done |-> TRUE, returned |-> "None", findings |-> 0, reports |-> 0,
                notifs |-> 0]
          ELSE [done |-> TRUE, returned |-> "AuditResult",
                findings |-> Len(Get(gResult, "findings", <<>>)),
                reports |-> 1, notifs |-> TelegramCount]
    /\ UNCHANGED <<benchVars, runnerVars, parseVars, gpc, gOp, gResult, gFindings, gLines, gText, gSeen,
                   gUsage>>

----------------------------------------------------------------------------
(* The provider's batch job reaches its terminal state                      *)

JobEnds(b) ==
    /\ jobs[b] = "processing"
    /\ jobs' = [jobs EXCEPT ![b] = "ended"]
    /\ UNCHANGED <<config, ledger, issued, clock, faults, outVars, submitted,
                   subVars, retVars, runVars>>
    /\ UNCHANGED <<parseVars, gemVars, benchVars>>

\* The ledger file, intact so far, is damaged between two invocations: it is
\* left empty, or the i-th batch entry loses the member `key`.
WithoutMember(obj, key) == SelectSeq(obj, LAMBDA m : m[1] # key)

DamagedEntry(text, i, key) ==
    [n \in 1..Len(text) |->
        IF text[n][1] = "batches"
        THEN <<"batches", [text[n][2] EXCEPT ![i] = WithoutMember(@, key)]>>
        ELSE text[n]]

CorruptLedger(emptied, i, key) ==
    /\ spc \in Done /\ rpc \in Done /\ upc \in Done
    /\ ledger.exists
    /\ Decodes(ledger.text)
    /\ \A n \in 1..Len(Loads(ledger.text).batches) :
          HasKeys(Loads(ledger.text).batches[n])
    /\ faults < MaxFaults
    /\ IF emptied
       THEN ledger' = File(Undecodable)
       ELSE /\ i \in 1..Len(Member(ledger.text, "batches"))
            /\ ledger' = File(DamagedEntry(ledger.text, i, key))
    /\ UNCHANGED <<config, provVars, clock, faults, outVars, submitted, subVars,
                   retVars, runVars>>
    /\ UNCHANGED <<parseVars, gemVars, benchVars>>

----------------------------------------------------------------------------
(* scripts/benchmark_analyze.py                                             *)

\* A call of jaccard_similarity on its own
Jaccard(set_a, set_b) ==
    /\ bpc = "idle"
    /\ bResults = <<>>
    /\ jArgs' = <<set_a, set_b>>
    /\ jOut' = JaccardSimilarity(set_a, set_b)
    /\ UNCHANGED <<bpc, bResults, bMetrics, bUnique, bSkipped>>
    /\ UNCHANGED <<runnerVars, parseVars, gemVars>>

\* load_results: one iteration of the loop over the files, the file holding
\* `data` when it is a record
LoadFile(kind, data) ==
    /\ bpc = "idle"
    /\ Len(bResults) + bSkipped < MaxRuns
    /\ jArgs' = NoSets /\ jOut' = Null
    /\ IF kind = "record"
       THEN /\ bResults' = Append(bResults, SetDefaultSource(data))
            /\ UNCHANGED <<bpc, bSkipped>>
       ELSE IF kind \in {"invalid json", "unreadable"}
       THEN \* except (json.JSONDecodeError, OSError): a warning is printed
            /\ bSkipped' = bSkipped + 1
            /\ UNCHANGED <<bpc, bResults>>
       ELSE \* the decoded value has no setdefault: AttributeError, not caught
            /\ bpc' = "raised"
            /\ UNCHANGED <<bResults, bSkipped>>
    /\ UNCHANGED <<bMetrics, bUnique>>
    /\ UNCHANGED <<runnerVars, parseVars, gemVars>>

\* load_results: results.append(data)
LoadResult(data) == LoadFile("record", data)

\* metrics = compute_run_metrics(results)
\* unique_findings = compute_cross_model_unique(results)
Compute ==
    /\ bpc = "idle"
    /\ bMetrics' = ComputeRunMetrics(bResults)
    /\ bUnique' = ComputeCrossModelUnique(bResults)
    /\ bpc' = "computed"
    /\ UNCHANGED <<bResults, jArgs, jOut, bSkipped>>
    /\ UNCHANGED <<runnerVars, parseVars, gemVars>>

----------------------------------------------------------------------------
(* Specifications                                                           *)

\* Callers serialize submit/retrieve cycles: an invocation begins only when
\* no other one is running.
Submit ==
    /\ rpc \in Done /\ upc \in Done
    /\ \E fa \in FocusArgs, ra \in RepoArgs :
          \E t \in IF fa = None THEN TodayFocus ELSE {fa} :
              \* the arguments validation never looks at matter only past it
              \* (provider_name is not looked at in a dry run either)
              \E d \in IF Validates(fa, t, ra) THEN BOOLEAN ELSE {FALSE} :
                  \E pa \in IF Validates(fa, t, ra) /\ ~d THEN ProviderArgs ELSE {None} :
                      SubmitBegin(fa, t, ra, pa, d)

SubmitStep == \E n \in FileCounts, r \in BOOLEAN : SubmitRepo(n, r)

Retrieve == spc \in Done /\ upc \in Done /\ RetrieveBegin

RetrieveStep == \E o \in {"ok", "poll raises", "send raises"} : RetrieveRepo(o)

Provider == \E b \in BatchIds : JobEnds(b)

Next ==
    \/ Submit
    \/ SubmitStep
    \/ SubmitSave
    \/ Retrieve
    \/ RetrieveStep
    \/ RetrieveFinish
    \/ Provider

Spec == Init /\ [][Next]_vars

\* The same callers, with a ledger file that can be damaged on disk
Corrupt ==
    \E e \in BOOLEAN :
        \E i \in IF e THEN {1} ELSE BatchIds :
            \E k \in IF e THEN {"repo"} ELSE RequiredKeys : CorruptLedger(e, i, k)

CorruptNext ==
    \/ Submit
    \/ SubmitStep
    \/ SubmitSave
    \/ Retrieve
    \/ RetrieveStep
    \/ RetrieveFinish
    \/ Provider
    \/ Corrupt

CorruptStart ==
    RunnerInit /\ config.beta \in PROVIDERS /\ ParserIdle /\ GeminiInit /\ BenchIdle

CorruptSpec == CorruptStart /\ [][CorruptNext]_vars

\* The benchmark analysis: jaccard_similarity on its own, or records loaded
\* and their metrics computed
BenchJaccard == \E a \in SUBSET IdPool, b \in SUBSET IdPool : Jaccard(a, b)

BenchLoad == \E r \in ResultRecords : LoadResult(r)

BenchNext ==
    \/ BenchJaccard
    \/ BenchLoad
    \/ Compute

BenchStart ==
    RunnerInit /\ config.beta \in PROVIDERS /\ ParserIdle /\ GeminiInit /\ BenchIdle

BenchSpec == BenchStart /\ [][BenchNext]_vars

\* The same callers as in Spec, for one configuration
LedgerStart ==
    RunnerInit /\ config.beta \in PROVIDERS /\ ParserIdle /\ GeminiInit /\ BenchIdle

LedgerSpec == LedgerStart /\ [][Next]_vars

\* submit_audit and retrieve_audit as two processes on one ledger path: either
\* may be started while the other is inside its loop.  The invocations are
\* the ones that pass validation, are no dry run and meet no collaborator
\* that raises.
RaceSubmit ==
    /\ upc \in Done
    /\ \E fa \in {None, "security"}, ra \in {None, "alpha", "beta"} :
          SubmitBegin(fa, "docs", ra, None, FALSE)

RaceSubmitStep == \E n \in FileCounts : SubmitRepo(n, FALSE)

RaceRetrieve == upc \in Done /\ RetrieveBegin

RaceRetrieveStep == RetrieveRepo("ok")

RaceNext ==
    \/ RaceSubmit
    \/ RaceSubmitStep
    \/ SubmitSave
    \/ RaceRetrieve
    \/ RaceRetrieveStep
    \/ RetrieveFinish
    \/ Provider

RaceStart ==
    RunnerInit /\ config.beta \in PROVIDERS /\ ParserIdle /\ GeminiInit /\ BenchIdle

RaceSpec == RaceStart /\ [][RaceNext]_vars

\* The benchmark analysis of records with severity counts and durations
TimedLoad == \E r \in TimedRecords : LoadResult(r)

TimedNext ==
    \/ TimedLoad
    \/ Compute

TimedStart ==
    RunnerInit /\ config.beta \in PROVIDERS /\ ParserIdle /\ GeminiInit /\ BenchIdle

TimedSpec == TimedStart /\ [][TimedNext]_vars

\* load_results over files of every kind, then the analysis
FewRecords ==
    {Haiku @@ [findings_count |-> 1]}
    \cup {Flash @@ [run_number |-> n, findings_count |-> 1, cost_usd |-> 5,
                    findings |-> <<FindingOf("aaa")>>] : n \in {1, 2}}

LoadAny ==
    \E k \in FileKinds :
        \E d \in IF k = "record" THEN FewRecords ELSE {NoKey} : LoadFile(k, d)

LoadNext ==
    \/ LoadAny
    \/ Compute

LoadStart ==
    RunnerInit /\ config.beta \in PROVIDERS /\ ParserIdle /\ GeminiInit /\ BenchIdle

LoadSpec == LoadStart /\ [][LoadNext]_vars

\* The local entry points: submit_audit and run_audit, called one at a time
Run ==
    /\ spc \in Done /\ rpc \in Done
    /\ \E fa \in FocusArgs, ra \in RepoArgs :
          \E t \in IF fa = None THEN TodayFocus ELSE {fa} :
              \E d \in IF Validates(fa, t, ra) THEN BOOLEAN ELSE {FALSE} :
                  \E pa \in IF Validates(fa, t, ra) /\ ~d THEN ProviderArgs ELSE {None} :
                      RunBegin(fa, t, ra, pa, d)

FindingCounts == {0, 1}                    \* len(provider.run_audit(...))

RunStep ==
    \E n \in FileCounts, k \in FindingCounts,
       o \in {"ok", "audit raises", "send raises"} :
        \* the number of findings matters only when run_audit was called
        /\ (n = 0 \/ uArgs.dry_run \/ o # "ok") => k = 0
        /\ RunRepo(n, k, o)

RunNext ==
    \/ Submit
    \/ SubmitStep
    \/ SubmitSave
    \/ Run
    \/ RunStep
    \/ RunReturn

RunSpec == Init /\ [][RunNext]_vars

ParseNext == \E f \in RawFindings : ParseFinding(f)

ParseSpec == ParseInit /\ [][ParseNext]_vars

GeminiSync ==
    \E t \in ResponseTexts, u \in SyncUsageMetadatas, d \in DefaultFocuses :
        GeminiRunAudit(t, u, d)

GeminiBatch ==
    \E c \in {"direct", "_retrieve_repo"}, n \in JobStates, d \in DefaultFocuses,
       r \in BOOLEAN :
        GeminiRetrieveBegin(c, n, d, r)

GeminiLine == \E l \in OutputLines : GeminiRetrieveLine(l)

GeminiNext ==
    \/ GeminiSync
    \/ GeminiBatch
    \/ GeminiLine
    \/ GeminiRetrieveEnd
    \/ GeminiRepoResult

\* A provider has been constructed
GeminiStart ==
    RunnerInit /\ config.beta \in PROVIDERS /\ ParserIdle /\ GeminiInit /\ BenchIdle

GeminiSpec == GeminiStart /\ [][GeminiNext]_vars

\* The code runs an invocation to its end, retrieve_audit keeps being invoked
\* and every batch job reaches its terminal state.
FairSpec ==
    /\ Spec
    /\ WF_vars(SubmitStep) /\ WF_vars(SubmitSave)
    /\ WF_vars(Retrieve) /\ WF_vars(RetrieveStep) /\ WF_vars(RetrieveFinish)
    /\ \A b \in BatchIds : WF_vars(JobEnds(b))

----------------------------------------------------------------------------
(* What the properties speak of                                             *)

LedgerBatches == IF ledger.exists THEN Loads(ledger.text).batches ELSE <<>>
LedgerIds == IdsOf(LedgerBatches)

\* The ledger file holds exactly the pending set p
LedgerHolds(p) == ledger.exists /\ Loads(ledger.text) = p

\* retrieve_audit has come to its end, one way or the other, having found a ledger
RetrieveReturned == rpc = "returned" /\ rFound
RetrieveEnded == rpc \in {"returned", "raised"} /\ rFound

\* The batch ids this retrieve_audit invocation was answered "ended" /
\* something else for
AnsweredEnded == {rPolls[i].batch_id : i \in {j \in 1..Len(rPolls) : rPolls[j].status = "ended"}}
PolledIds == [i \in 1..Len(rPolls) |-> rPolls[i].batch_id]
PendingIds(p) == [i \in 1..Len(p.batches) |-> p.batches[i].batch_id]

\* Position of a repo in config.repos
RepoPos(r) == CHOOSE i \in 1..Len(Repos) : Repos[i] = r
InRepoOrder(batches) ==
    \A i, j \in 1..Len(batches) : i < j => RepoPos(batches[i].repo) < RepoPos(batches[j].repo)

\* The calls to a provider, to the report store and to the notification
\* channel among the calls of a log
ProviderCalls(log) ==
    {i \in 1..Len(log) : log[i][1] \in {"construct provider", "submit_batch", "run_audit"}}
OutputCalls(log) == {i \in 1..Len(log) : log[i][1] \in {"save_report", "send_telegram"}}

\* A dry-run invocation is under way
DrySubmit == spc = "loop" /\ sArgs.dry_run
DryRun == upc = "loop" /\ uArgs.dry_run

\* The repos an invocation gathered zero files for
EmptyRepos(log) == {log[i][2] : i \in {j \in 1..Len(log) : log[j][1] = "gather_files" /\ log[j][3] = 0}}

\* A repo name is given and no configured repo has it
UnknownRepo(repo_name) == repo_name # None /\ \A i \in 1..Len(Repos) : Repos[i] # repo_name

\* Nothing was done on the way out of the step: no call, no change to the ledger,
\* the provider's jobs, the reports or the notifications
NothingProcessed == sLog' = <<>> /\ uLog' = <<>> /\ UNCHANGED <<ledger, provVars, outVars>>

\* The values a Finding's identity is made of
Identity(finding) == <<finding.file, finding.title, finding.line, finding.focus>>

\* The entries of a raw finding its identity is made of
RawIdentity(raw) == [k \in DOMAIN raw \cap {"file", "title", "line", "focus"} |-> raw[k]]

\* The provider supplied a focus with the finding
SuppliedFocus(raw) == "focus" \in DOMAIN raw /\ raw.focus \notin {Null, JStr("")}

\* The retrieve_batch call under way or completed is on a job in this state
BatchCallOn(states) == gOp.op = "retrieve_batch" /\ gOp.state_name \in states

\* A call whose token counts get_last_usage is to report has completed
UsageCallCompleted ==
    /\ gpc = "returned"
    /\ gOp.op = "run_audit" \/ BatchCallOn({"JOB_STATE_SUCCEEDED"})

----------------------------------------------------------------------------
(* Properties                                                               *)

\* C1: retrieve_audit removes the ledger only when every batch entry of it was
\* seen ended in that invocation; when an entry was still processing at the
\* end of the invocation, the ledger is still there with all its entries.
C1_LedgerKeptWhilePending ==
    (RetrieveReturned /\ ~(IdsOf(rPending.batches) \subseteq AnsweredEnded))
        => LedgerHolds(rPending)

\* C2: under fairness, every batch entry written to the ledger eventually has
\* its report saved and the ledger is eventually removed (unless a further
\* submit_audit begins in the meantime and replaces the ledger).
C2_EveryBatchReported ==
    \A b \in BatchIds : \A c \in 0..MaxSubmits :
        [](((b \in LedgerIds) /\ clock = c)
              => <>((reports[b] > 0 /\ ~ledger.exists) \/ clock > c))

\* C3: the report of a batch is saved at most once and its notifications are
\* sent at most once, over any sequence of retrieve_audit invocations.
C3_ReportedAtMostOnce ==
    \A b \in BatchIds : reports[b] <= 1 /\ notifs[b] <= TelegramCount

\* C4: when provider.submit_batch raises for one repo of a multi-repo
\* submit_audit, every other repo has still been gone through and the ledger
\* holds the entries of the submissions that succeeded.
C4_SubmitFailureIsolated ==
    (spc = "raised" /\ sExc = "ProviderError" /\ Len(sRepos) > 1)
        => /\ sIdx = Len(sRepos)
           /\ pending.batches # <<>> => LedgerHolds(pending)

\* C5: when polling or processing one batch entry raises, every other entry
\* of the ledger is still polled in that invocation.
C5_RetrieveFailureIsolated ==
    (rpc = "raised" /\ rFound) => IdsOf(rPending.batches) \subseteq IdsOf(rPolls)

\* C6: from the moment submit_batch has returned a batch id until a retrieval
\* sees that batch ended, the ledger holds an entry with that batch id.
C6_SubmittedBatchInLedger ==
    \A b \in BatchIds : (jobs[b] # "none" /\ b \notin observed) => b \in LedgerIds

\* C7: when a submit_audit that submitted at least one batch (hence not a dry
\* run) has returned, the ledger is written and holds, in repo order, every
\* batch id of that invocation together with its focus.
C7_LedgerWrittenBeforeReturn ==
    (spc = "returned" /\ pending.batches # <<>>)
        => /\ LedgerHolds(pending)
           /\ InRepoOrder(LedgerBatches)
           /\ Loads(ledger.text).focus \in FOCUS_AREAS

C7_Witness ==
    /\ spc = "returned" /\ Len(pending.batches) = 2
    /\ LedgerHolds(pending)
    /\ PendingIds(pending) = <<1, 2>>

\* C8: when every batch of the ledger is answered non-terminal, retrieve_audit
\* returns the empty list, saves no report, sends no notification and leaves
\* the ledger as it was.
C8_AllProcessingChangesNothing ==
    (RetrieveReturned /\ \A i \in 1..Len(rPolls) : rPolls[i].status = "processing")
        => /\ results = <<>>
           /\ <<reports, notifs>> = rOut0
           /\ LedgerHolds(rPending)

C8_Witness ==
    /\ RetrieveReturned /\ Len(rPolls) = 2
    /\ \A i \in 1..Len(rPolls) : rPolls[i].status = "processing"
    /\ results = <<>> /\ LedgerHolds(rPending)

\* C9: a retrieve_audit invocation that finds a ledger polls each batch entry
\* of it exactly once, in ledger order.
C9_PollsEveryEntryOnce ==
    RetrieveEnded => PolledIds = PendingIds(rPending)

\* C10: after two submit_audit invocations that each submitted a batch, with
\* no retrieve_audit between them, the ledger holds exactly the second one's
\* focus and entries and none of the first one's batch ids.
C10_SecondSubmitReplacesLedger ==
    Len(submitted) >= 2
        => /\ LedgerHolds(submitted[Len(submitted)])
           /\ \A i \in 1..(Len(submitted) - 1) :
                 IdsOf(submitted[i].batches) \cap LedgerIds = {}

C10_Witness ==
    /\ Len(submitted) = 2
    /\ LedgerHolds(submitted[2])
    /\ submitted[1].focus # submitted[2].focus
    /\ IdsOf(submitted[1].batches) # {}

\* C14: when submit_audit has rejected a repo for its unregistered provider
\* name, that invocation has created no batch job and the ledger is as it was
\* at entry.
C14_UnknownProviderNothingSubmitted ==
    (spc = "raised" /\ sExc = "ValueError: provider")
        => /\ \A i \in 1..Len(sLog) : sLog[i][1] # "submit_batch"
           /\ pending.batches = <<>>
           /\ ledger = sLedger0

\* C11: no step of a dry-run submit_audit or run_audit, from entry to return,
\* constructs or calls a provider, changes the ledger, saves a report or sends
\* a notification, and none raises.
C11_DryRunTouchesNothing ==
    [][(DrySubmit \/ DrySubmit' \/ DryRun \/ DryRun')
          => /\ ProviderCalls(sLog') = {} /\ ProviderCalls(uLog') = {}
             /\ OutputCalls(uLog') = {}
             /\ UNCHANGED <<ledger, provVars, outVars>>
             /\ spc' # "raised" /\ upc' # "raised"]_vars

C11_Witness ==
    /\ DrySubmit /\ sIdx > Len(sRepos)
    /\ Gathered(sLog, "alpha", 1) /\ Gathered(sLog, "beta", 1)
    /\ ledger.exists /\ ledger = sLedger0

\* C12: a repo that gather_files returned no file for gets no provider call,
\* no batch entry in pending, no saved report and no notification; run_audit
\* has for it a result with provider "none" and no findings, and the ledger is
\* as it was at entry while the loops run.
C12_NoFilesNoWork ==
    /\ \A r \in EmptyRepos(sLog) :
          /\ \A i \in ProviderCalls(sLog) : sLog[i][2] # r
          /\ \A i \in 1..Len(pending.batches) : pending.batches[i].repo # r
          /\ ledger = sLedger0
    /\ \A r \in EmptyRepos(uLog) :
          /\ \A i \in ProviderCalls(uLog) \cup OutputCalls(uLog) : uLog[i][2] # r
          /\ \E i \in 1..Len(uResults) : uResults[i].repo = r
          /\ \A i \in 1..Len(uResults) :
                uResults[i].repo = r
                    => uResults[i].provider = "none" /\ uResults[i].findings = 0
          /\ ledger = uLedger0

C12_Witness ==
    /\ upc = "loop" /\ uIdx > Len(uRepos) /\ ~uArgs.dry_run
    /\ EmptyRepos(uLog) = {"alpha"}
    /\ Did(uLog, "save_report", "beta")
    /\ uResults[1].provider = "none" /\ uResults[2].findings = 1

\* C13 (as stated): whenever the focus submit_audit or run_audit works with is
\* not a registered focus area, or the given repo name matches no configured
\* repo, the invocation raises with nothing processed.
C13_UnregisteredRaises ==
    [][\A fa \in FocusArgs, t \in TodayFocus, ra \in RepoArgs :
          (EffectiveFocus(fa, t) \notin FOCUS_AREAS \/ UnknownRepo(ra))
              => /\ SubmitBegin(fa, t, ra, None, FALSE)
                    => (spc' = "raised" /\ NothingProcessed)
                 /\ RunBegin(fa, t, ra, None, FALSE)
                    => (upc' = "raised" /\ NothingProcessed)]_vars

\* C13 (amended): when the focus is neither "off" nor registered, or it is
\* registered and the given repo name matches no configured repo, the
\* invocation raises ValueError with nothing processed; when the focus is "off"
\* it returns, without raising, with nothing processed.  (provider_name and
\* dry_run are not looked at on these paths.)
C13_InvalidRaisesOffReturns ==
    [][\A fa \in FocusArgs, ra \in RepoArgs :
          \A t \in IF fa = None THEN TodayFocus ELSE {fa} :
              LET f == EffectiveFocus(fa, t)
                  rejected == f # "off" /\ (f \notin FOCUS_AREAS \/ UnknownRepo(ra))
              IN  /\ (rejected /\ SubmitBegin(fa, t, ra, None, FALSE))
                        => /\ spc' = "raised"
                           /\ sExc' \in {"ValueError: focus", "ValueError: repo"}
                           /\ NothingProcessed
                  /\ (rejected /\ RunBegin(fa, t, ra, None, FALSE))
                        => /\ upc' = "raised"
                           /\ uExc' \in {"ValueError: focus", "ValueError: repo"}
                           /\ NothingProcessed
                  /\ (f = "off" /\ SubmitBegin(fa, t, ra, None, FALSE))
                        => (spc' = "returned" /\ pending' = NoPending /\ NothingProcessed)
                  /\ (f = "off" /\ RunBegin(fa, t, ra, None, FALSE))
                        => (upc' = "returned" /\ uResults' = <<>> /\ NothingProcessed)]_vars

C13_Witness ==
    /\ upc = "raised" /\ uExc = "ValueError: repo"
    /\ uLog = <<>> /\ ledger.exists /\ ledger = uLedger0

\* C18: two findings of a parse have the same id exactly when they have the
\* same file, title, line and focus as stored on the Finding.
C18_SameIdIffSameIdentity ==
    \A i, j \in 1..Len(pFindings) :
        (pFindings[i].id = pFindings[j].id)
            <=> (Identity(pFindings[i]) = Identity(pFindings[j]))

\* C19: two raw findings with the same file, title, line and focus entries get
\* the same id, from the Gemini and from the Anthropic provider, whatever
\* their severity, description and suggestion.
C19_IdIgnoresWording ==
    \A i, j \in 1..Len(pData) :
        RawIdentity(pData[i]) = RawIdentity(pData[j])
            => /\ pFindings[i].id = pFindings[j].id
               /\ MakeFindingId(pData[i]) = MakeFindingId(pData[j])
               /\ AnthropicFindingId(pData[i]) = AnthropicFindingId(pData[j])

C19_Witness ==
    /\ Len(pData) = 2
    /\ RawIdentity(pData[1]) = RawIdentity(pData[2])
    /\ "line" \in DOMAIN pData[1] /\ SuppliedFocus(pData[1])
    /\ pData[1].description # pData[2].description
    /\ pData[1].severity # pData[2].severity
    /\ Get(pData[1], "suggestion", Null) # Get(pData[2], "suggestion", Null)
    /\ pFindings[1].id = pFindings[2].id

\* C20: the focus of a parsed finding is the raw finding's own focus when it
\* has one (a non-empty string), and the default focus otherwise, which is
\* None when no default was given.
C20_FocusBackfill ==
    \A i \in 1..Len(pFindings) :
        pFindings[i].focus = IF SuppliedFocus(pData[i]) THEN pData[i].focus ELSE pDefault

C20_Witness ==
    /\ Len(pFindings) = 2 /\ pDefault = JStr("security")
    /\ "focus" \notin DOMAIN pData[1] /\ pFindings[1].focus = JStr("security")
    /\ Get(pData[2], "focus", Null) = JStr("docs") /\ pFindings[2].focus = JStr("docs")

\* C15: retrieve_batch on a failed or cancelled job never raises and returns
\* status "ended", the empty findings list and errored = 1; _retrieve_repo
\* makes an AuditResult with zero findings of it, saves the report and sends
\* the notifications, as it does for every terminal batch.
C15_FailedJobIsNormalResult ==
    /\ BatchCallOn({"JOB_STATE_FAILED", "JOB_STATE_CANCELLED"})
          => /\ gpc = "returned"
             /\ gResult.status = "ended"
             /\ "findings" \in DOMAIN gResult /\ gResult.findings = <<>>
             /\ gResult.request_counts.errored = 1
             /\ gAudit.done => gAudit.findings = 0
    /\ (BatchCallOn(GEMINI_TERMINAL_STATES) /\ gAudit.done)
          => /\ gAudit.returned = "AuditResult"
             /\ gAudit.reports = 1
             /\ gAudit.notifs = TelegramCount

C15_Witness ==
    /\ BatchCallOn({"JOB_STATE_CANCELLED"}) /\ gOp.caller = "_retrieve_repo"
    /\ gResult.request_counts.errored = 1
    /\ gAudit.done /\ gAudit.returned = "AuditResult" /\ gAudit.reports = 1

\* C16: the result retrieve_batch returns has status "ended" exactly for the
\* states SUCCEEDED, FAILED and CANCELLED and "processing" for every other
\* one, has exactly one of its three counts at 1 and the others at 0, and has
\* a findings list exactly when its status is "ended".
C16_StateToOutcome ==
    (gpc = "returned" /\ BatchCallOn(JobStates))
        => LET counts == gResult.request_counts
               terminal == gOp.state_name \in {"JOB_STATE_SUCCEEDED", "JOB_STATE_FAILED",
                                               "JOB_STATE_CANCELLED"}
           IN  /\ gResult.status = IF terminal THEN "ended" ELSE "processing"
               /\ {counts.processing, counts.succeeded, counts.errored} = {0, 1}
               /\ counts.processing + counts.succeeded + counts.errored = 1
               /\ ("findings" \in DOMAIN gResult) <=> (gResult.status = "ended")

C16_Witness ==
    /\ gpc = "returned" /\ BatchCallOn({"JOB_STATE_SUCCEEDED"})
    /\ gResult.status = "ended" /\ gResult.request_counts.succeeded = 1
    /\ "findings" \in DOMAIN gResult /\ Len(gResult.findings) = 1
    /\ gLines = 2

\* C17: when a run_audit call, or a retrieve_batch call on a succeeded job,
\* has completed, _last_usage holds the token counts the responses of that
\* call carried, and four zeros when they carried none.
C17_UsageOfLastCall ==
    UsageCallCompleted
        => gUsage = IF gSeen.carried THEN gSeen.counts ELSE ZeroUsage

\* C21: the pending set retrieve_audit reads, its focus and its batch entries
\* in order, is the one the last submit_audit that saved a ledger wrote; and
\* decoding what json.dumps made of a pending set gives the pending set back.
C21_LedgerRoundTrip ==
    [][ /\ Loads(Dumps(pending)) = pending
        /\ (rpc \in Done /\ rpc' = "loop" /\ submitted # <<>>)
              => rPending' = submitted[Len(submitted)] ]_vars

\* retrieve_audit has read a ledger of two batch entries
C21_Witness ==
    /\ rpc = "loop" /\ rFound /\ rIdx = 1
    /\ Len(rPending.batches) = 2
    /\ rPending.batches[1].batch_id # rPending.batches[2].batch_id

\* C22: with no ledger at the path retrieve_audit returns the empty list, raises
\* nothing, polls no batch, saves no report, sends no notification and leaves
\* the path without a ledger.
C22_NoLedgerReturnsEmpty ==
    (rpc \in {"returned", "raised"} /\ ~rFound)
        => /\ rpc = "returned" /\ rExc = ""
           /\ results = <<>>
           /\ rPolls = <<>>
           /\ <<reports, notifs>> = rOut0
           /\ ~ledger.exists

\* retrieve_audit found no ledger after an earlier retrieval had reported batch 1
C22_Witness ==
    /\ rpc = "returned" /\ ~rFound
    /\ reports[1] > 0

\* C23: every batch id polled was returned by a provider submit call made
\* before the poll.
C23_PolledIdsWereIssued ==
    \A i \in 1..Len(rPolls) :
        /\ rPolls[i].batch_id \in 1..issued
        /\ jobs[rPolls[i].batch_id] # "none"

\* retrieve_audit has polled the two batches a submit_audit submitted
C23_Witness ==
    /\ Len(rPolls) = 2
    /\ issued = 2
    /\ rPolls[1].batch_id # rPolls[2].batch_id

\* C24: a corrupt ledger does not abort retrieve_audit: it ends without a
\* decoding exception and every well-formed batch entry of the ledger has
\* been polled.
C24_CorruptLedgerSkipped ==
    (rpc \in {"returned", "raised"} /\ rFound
        /\ rExc \in {"", "JSONDecodeError", "KeyError"})
        => /\ rpc = "returned"
           /\ \A i \in 1..Len(rPending.batches) :
                 HasKeys(rPending.batches[i])
                    => \E j \in 1..Len(rPolls) :
                          rPolls[j].batch_id = rPending.batches[i].batch_id

----------------------------------------------------------------------------
(* Properties of the benchmark analysis                                     *)

\* A jaccard_similarity call has returned
JaccardReturned == jOut # Null

\* A float value, as opposed to None or a raised exception
IsNumber(x) == x # Null /\ x # ZeroDivisionError /\ x.den > 0

\* The runs of a group among the records passed in, by position
RunsOf(key) == {i \in 1..Len(bResults) : GroupKey(bResults[i]) = key}

\* The total of a field over the runs of a group, a missing field counting 0
TotalOf(key, field) ==
    SumSeq([i \in 1..Len(bResults) |->
               IF i \in RunsOf(key) THEN Get(bResults[i], field, 0) ELSE 0])

\* Every run of the group has a run_number and no two runs share one
DistinctRunNumbers(key) ==
    /\ \A i \in RunsOf(key) : "run_number" \in DOMAIN bResults[i]
    /\ \A i, j \in RunsOf(key) :
          i # j => bResults[i].run_number # bResults[j].run_number

\* Of the runs at the positions `among`, the one with the smallest run_number
Earliest(among) ==
    CHOOSE i \in among :
        \A j \in among : bResults[i].run_number <= bResults[j].run_number

\* intersection size / union size of the finding ids of the two runs of the
\* group with the smallest run_numbers, 1 when neither has a finding
FirstTwoAgree(key, value) ==
    LET first == Earliest(RunsOf(key))
        second == Earliest(RunsOf(key) \ {first})
        ids_1 == FindingIds(bResults[first])
        ids_2 == FindingIds(bResults[second])
    IN  /\ IsNumber(value)
        /\ IF ids_1 \cup ids_2 = {}
           THEN value.num = value.den
           ELSE value.num * Cardinality(ids_1 \cup ids_2)
                    = Cardinality(ids_1 \cap ids_2) * value.den

\* The two runs of the group with the smallest run_numbers found these ids
FirstTwoFound(key, a, b) ==
    LET first == Earliest(RunsOf(key))
        second == Earliest(RunsOf(key) \ {first})
    IN  FindingIds(bResults[first]) = a /\ FindingIds(bResults[second]) = b

\* compute_run_metrics: consistency follows the two earliest runs of every
\* group of two or more runs with distinct run_numbers
ConsistencyOfFirstTwo ==
    bpc = "computed" =>
        \A key \in DOMAIN bMetrics :
            (Cardinality(RunsOf(key)) >= 2 /\ DistinctRunNumbers(key))
                => FirstTwoAgree(key, bMetrics[key].consistency_jaccard)

\* what consistency is worth, as a fraction, in every group whose two earliest
\* runs found {aaa, bbb} and {bbb, ccc}
ScenarioGives(n, d) ==
    bpc = "computed" =>
        \A key \in DOMAIN bMetrics :
            (/\ Cardinality(RunsOf(key)) >= 2 /\ DistinctRunNumbers(key)
             /\ FirstTwoFound(key, {"aaa", "bbb"}, {"bbb", "ccc"}))
                => /\ IsNumber(bMetrics[key].consistency_jaccard)
                   /\ FracEq(bMetrics[key].consistency_jaccard, Frac(n, d))

\* C25: jaccard_similarity(A, B) is |A & B| / |A | B| when the union is not
\* empty and 1.0 when both sets are empty; so it lies in [0, 1], is 1.0 for
\* A = B and 0.0 for disjoint sets that are not both empty.
C25_JaccardValue ==
    JaccardReturned =>
        LET a == jArgs[1]
            b == jArgs[2]
        IN  /\ IsNumber(jOut)
            /\ IF a \cup b = {}
               THEN jOut.num = jOut.den
               ELSE jOut.num * Cardinality(a \cup b) = Cardinality(a \cap b) * jOut.den
            /\ 0 <= jOut.num /\ jOut.num <= jOut.den
            /\ a = b => jOut.num = jOut.den
            /\ (a \cap b = {} /\ a \cup b # {}) => jOut.num = 0

\* jaccard_similarity({aaa, bbb}, {bbb, ccc}) has returned 1/3
C25_Witness ==
    /\ JaccardReturned
    /\ jArgs = <<{"aaa", "bbb"}, {"bbb", "ccc"}>>
    /\ jOut = Frac(1, 3)

\* C26: jaccard_similarity(A, B) = jaccard_similarity(B, A), also when one of
\* the sets is empty.
C26_JaccardSymmetric ==
    JaccardReturned =>
        LET swapped == JaccardSimilarity(jArgs[2], jArgs[1])
        IN  /\ IsNumber(jOut) /\ IsNumber(swapped)
            /\ FracEq(jOut, swapped)

\* jaccard_similarity has returned for an empty first set and a second set of
\* two ids
C26_Witness ==
    /\ JaccardReturned
    /\ jArgs[1] = {}
    /\ Cardinality(jArgs[2]) = 2

\* C27: consistency is None for a group of exactly one run, and is a number
\* exactly when the group has two runs or more.
C27_ConsistencyNeedsTwoRuns ==
    bpc = "computed" =>
        \A key \in DOMAIN bMetrics :
            /\ Cardinality(RunsOf(key)) = 1 => bMetrics[key].consistency_jaccard = Null
            /\ IsNumber(bMetrics[key].consistency_jaccard)
                  <=> Cardinality(RunsOf(key)) >= 2

\* Metrics have been computed for a group of one run and a group of two runs
C27_Witness ==
    /\ bpc = "computed"
    /\ \E k1, k2 \in DOMAIN bMetrics :
          /\ Cardinality(RunsOf(k1)) = 1 /\ bMetrics[k1].consistency_jaccard = Null
          /\ Cardinality(RunsOf(k2)) = 2 /\ bMetrics[k2].consistency_jaccard # Null

\* C28, as claimed: consistency is the set-similarity of the finding ids of the
\* two runs with the smallest run_numbers, whatever the order of the records
\* and whatever further runs hold, and ids {aaa, bbb} and {bbb, ccc} give 0.5.
C28_ScenarioGivesHalf == ConsistencyOfFirstTwo /\ ScenarioGives(1, 2)

\* C28, amended: consistency is the set-similarity (intersection size / union
\* size) of the finding ids of the two runs with the smallest run_numbers,
\* whatever the order of the records and whatever further runs hold; ids
\* {aaa, bbb} and {bbb, ccc} give 1/3.
C28_ConsistencyOfFirstTwoRuns == ConsistencyOfFirstTwo /\ ScenarioGives(1, 3)

\* Three runs of one group were passed in the order 3, 1, 2; runs 1 and 2
\* found {aaa, bbb} and {bbb, ccc}, run 3 found nothing
C28_Witness ==
    /\ bpc = "computed"
    /\ Len(bResults) = 3
    /\ \A i \in 1..3 : GroupKey(bResults[i]) = GroupKey(Haiku)
    /\ DistinctRunNumbers(GroupKey(Haiku))
    /\ <<bResults[1].run_number, bResults[2].run_number, bResults[3].run_number>>
          = <<3, 1, 2>>
    /\ FindingIds(bResults[1]) = {}
    /\ FirstTwoFound(GroupKey(Haiku), {"aaa", "bbb"}, {"bbb", "ccc"})
    /\ bMetrics[GroupKey(Haiku)].consistency_jaccard = Frac(1, 3)

\* C29: cost_per_finding is None, with no exception raised, when the mean
\* findings count of the group is 0, and is the mean cost divided by the mean
\* findings count otherwise.
C29_CostPerFinding ==
    bpc = "computed" =>
        \A key \in DOMAIN bMetrics :
            LET cpf == bMetrics[key].cost_per_finding_usd
            IN  IF TotalOf(key, "findings_count") = 0
                THEN cpf = Null
                ELSE /\ IsNumber(cpf)
                     /\ cpf.num * TotalOf(key, "findings_count")
                           = TotalOf(key, "cost_usd") * cpf.den

\* Metrics have been computed for a group that cost money and found nothing
\* and for a group that found something
C29_Witness ==
    /\ bpc = "computed"
    /\ \E k1, k2 \in DOMAIN bMetrics :
          /\ TotalOf(k1, "findings_count") = 0 /\ TotalOf(k1, "cost_usd") > 0
          /\ bMetrics[k1].cost_per_finding_usd = Null
          /\ TotalOf(k2, "findings_count") > 0
          /\ bMetrics[k2].cost_per_finding_usd # Null

\* C30: for every group, of whatever provider, the batch cost projection is a
\* number and is half of the mean cost of the group, 0 when the mean cost is 0.
C30_BatchCostIsHalf ==
    bpc = "computed" =>
        \A key \in DOMAIN bMetrics :
            LET batch == bMetrics[key].avg_batch_cost_usd
            IN  /\ IsNumber(batch)
                /\ batch.num * 2 * Cardinality(RunsOf(key))
                      = TotalOf(key, "cost_usd") * batch.den
                /\ TotalOf(key, "cost_usd") = 0 => batch.num = 0

\* Metrics have been computed for an anthropic group of mean cost 0 and a
\* gemini group of mean cost 5
C30_Witness ==
    /\ bpc = "computed"
    /\ {GroupKey(Haiku), GroupKey(Flash)} \subseteq DOMAIN bMetrics
    /\ TotalOf(GroupKey(Haiku), "cost_usd") = 0
    /\ bMetrics[GroupKey(Haiku)].avg_batch_cost_usd.num = 0
    /\ FracEq(bMetrics[GroupKey(Flash)].avg_batch_cost_usd, Frac(5, 2))

\* The runs of a group in the order they were passed in
RunSeq(key) == SelectSeq(bResults, LAMBDA r : GroupKey(r) = key)

\* The product of the findings_count values of runs, a 0 counting as 1
RECURSIVE CountProduct(_)
CountProduct(runs) ==
    IF runs = <<>> THEN 1
    ELSE (IF Head(runs).findings_count > 0 THEN Head(runs).findings_count ELSE 1)
            * CountProduct(Tail(runs))

\* The sum of the per-run high-severity rates of runs, in units of 1 / whole;
\* a run without findings adds 0
RECURSIVE RateTotal(_, _)
RateTotal(runs, whole) ==
    IF runs = <<>> THEN 0
    ELSE (IF Head(runs).findings_count > 0
          THEN (Get(Head(runs), "high_severity_count", 0) * whole)
                   \div Head(runs).findings_count
          ELSE 0)
            + RateTotal(Tail(runs), whole)

\* C31: the high-severity rate of a group is the mean over its runs of
\* high_severity_count / findings_count, a run without findings counting as a
\* rate of 0 in that mean.
C31_HighSeverityRate ==
    bpc = "computed" =>
        \A key \in DOMAIN bMetrics :
            LET rate == bMetrics[key].avg_high_severity_rate
                whole == CountProduct(RunSeq(key))
            IN  /\ IsNumber(rate)
                /\ rate.num * whole * Len(RunSeq(key))
                      = RateTotal(RunSeq(key), whole) * rate.den

\* A group of a run with 1 high finding of 2 and a run without findings has
\* the rate 1/4
C31_Witness ==
    /\ bpc = "computed"
    /\ Len(bResults) = 2
    /\ \A i \in 1..2 : GroupKey(bResults[i]) = GroupKey(Haiku)
    /\ bResults[1].findings_count = 2 /\ bResults[1].high_severity_count = 1
    /\ bResults[2].findings_count = 0
    /\ FracEq(bMetrics[GroupKey(Haiku)].avg_high_severity_rate, Frac(1, 4))

\* The durations of runs that are present and strictly positive
RECURSIVE PositiveDurations(_)
PositiveDurations(runs) ==
    IF runs = <<>> THEN <<>>
    ELSE LET d == Get(Head(runs), "duration_seconds", Null)
         IN  (IF d # Null /\ d.num > 0 THEN <<d>> ELSE <<>>)
                \o PositiveDurations(Tail(runs))

\* C32: the mean duration of a group is the mean of the durations that are
\* present and strictly positive, and None when the group has none.
C32_MeanDuration ==
    bpc = "computed" =>
        \A key \in DOMAIN bMetrics :
            LET avg == bMetrics[key].avg_duration_seconds
                kept == PositiveDurations(RunSeq(key))
            IN  IF kept = <<>>
                THEN avg = Null
                ELSE /\ IsNumber(avg)
                     /\ avg.num > 0
                     /\ FracEq(avg, Frac(SumFracs(kept).num,
                                         SumFracs(kept).den * Len(kept)))

\* A group whose runs took 4 s, 0 s and no recorded time has the mean 4, and a
\* group whose only run took 0 s has none
C32_Witness ==
    /\ bpc = "computed"
    /\ {GroupKey(Haiku), GroupKey(Flash)} \subseteq DOMAIN bMetrics
    /\ \E i, j \in 1..Len(bResults) :
          /\ GroupKey(bResults[i]) = GroupKey(Haiku)
          /\ Get(bResults[i], "duration_seconds", Null) = Zero
          /\ GroupKey(bResults[j]) = GroupKey(Haiku)
          /\ Get(bResults[j], "duration_seconds", Null) = Frac(4, 1)
    /\ FracEq(bMetrics[GroupKey(Haiku)].avg_duration_seconds, Frac(4, 1))
    /\ bMetrics[GroupKey(Flash)].avg_duration_seconds = Null

\* The ids the runs of a model reported
ReportedBy(model) ==
    UNION {FindingIds(bResults[i]) :
              i \in {j \in 1..Len(bResults) : bResults[j].model = model}}

\* The models of the records passed in
ModelsIn == {bResults[i].model : i \in 1..Len(bResults)}

\* C33: for every model that reported a finding, an id is in its unique set
\* iff one of its runs reported the id and no run of another model did; the
\* unique sets of two models share no id.
C33_UniqueToModel ==
    bpc = "computed" =>
        /\ \A model \in ModelsIn :
              ReportedBy(model) # {} =>
                  /\ model \in DOMAIN bUnique
                  /\ \A x \in IdPool :
                        x \in bUnique[model]
                           <=> /\ x \in ReportedBy(model)
                               /\ \A other \in ModelsIn \ {model} :
                                     x \notin ReportedBy(other)
        /\ \A m1, m2 \in DOMAIN bUnique : m1 # m2 => bUnique[m1] \cap bUnique[m2] = {}

\* Two models reported aaa, one of them bbb as well: bbb is unique to it and
\* nothing is unique to the other
C33_Witness ==
    /\ bpc = "computed"
    /\ DOMAIN bUnique = {Haiku.model, Flash.model}
    /\ ReportedBy(Haiku.model) = {"aaa", "bbb"}
    /\ ReportedBy(Flash.model) = {"aaa"}
    /\ bUnique[Haiku.model] = {"bbb"}
    /\ bUnique[Flash.model] = {}

\* The (provider, model, repo, focus) tuple of the i-th record passed in
TupleOf(i) ==
    <<bResults[i].provider, bResults[i].model, bResults[i].repo, bResults[i].focus>>

RECURSIVE RunCountTotal(_)
RunCountTotal(keys) ==
    IF keys = {} THEN 0
    ELSE LET key == CHOOSE k \in keys : TRUE
         IN  bMetrics[key].run_count + RunCountTotal(keys \ {key})

\* C34: the metrics hold one entry per tuple present in the input, the
\* run_count of an entry is the number of records with its tuple, and the
\* run_counts add up to the number of records.
C34_OneEntryPerGroup ==
    bpc = "computed" =>
        /\ DOMAIN bMetrics = {TupleOf(i) : i \in 1..Len(bResults)}
        /\ \A key \in DOMAIN bMetrics :
              bMetrics[key].run_count
                 = Cardinality({i \in 1..Len(bResults) : TupleOf(i) = key})
        /\ RunCountTotal(DOMAIN bMetrics) = Len(bResults)

\* Three records of two groups have been analysed
C34_Witness ==
    /\ bpc = "computed"
    /\ Len(bResults) = 3
    /\ Cardinality(DOMAIN bMetrics) = 2
    /\ \E key \in DOMAIN bMetrics : bMetrics[key].run_count = 2

\* C35: load_results does not fail on a malformed file: it skips it and goes
\* on to the remaining files.
C35_MalformedFileSkipped == bpc # "raised"

\* The provider tag run_audit's result for the i-th selected repo has to carry
TagFor(i) ==
    IF Gathered(uLog, uRepos[i], 0) THEN "none"
    ELSE IF uArgs.dry_run THEN "dry-run"
    ELSE ProviderFor(uArgs.provider_name, config, uRepos[i])

\* C36: while run_audit loops, and when it leaves the loop to return, results
\* holds one AuditResult per repo gone through, in the order of the selected
\* repos; the result of a repo with zero gathered files is the "none"
\* placeholder, in a dry run too, and the "dry-run" placeholder is the result
\* of a dry run with files only.
C36_NoFilesBeforeDryRun ==
    upc = "loop" =>
        /\ Len(uResults) = uIdx - 1
        /\ \A i \in 1..Len(uResults) :
              /\ uResults[i].repo = uRepos[i]
              /\ uResults[i].provider = TagFor(i)

\* A dry run over two repos, the first without files, is about to return
C36_Witness ==
    /\ upc = "loop" /\ uIdx > Len(uRepos) /\ Len(uRepos) = 2
    /\ uArgs.dry_run
    /\ Gathered(uLog, uRepos[1], 0) /\ Gathered(uLog, uRepos[2], 1)
    /\ uResults[1].provider = "none"
    /\ uResults[2].provider = "dry-run"

C38_RunLeavesLedger ==
    [][/\ runVars' # runVars => ledger' = ledger
       /\ upc' \in {"loop", "returned", "raised"} => ledger' = uLedger0']_vars

\* run_audit has audited a repo and returned, with the ledger an earlier
\* submit_audit wrote still there
C38_Witness ==
    /\ upc = "returned" /\ uResults # <<>>
    /\ \E i \in 1..Len(uResults) : uResults[i].provider \in PROVIDERS
    /\ ledger.exists /\ ledger = uLedger0
    /\ Len(submitted) = 1 /\ LedgerHolds(submitted[1])

\* The lines of the output file that have candidate text / usage metadata
CandidateLines == {i \in 1..Len(gText) : gText[i] # Blank /\ gText[i].response.candidates}
UsageLines == {i \in 1..Len(gText) : gText[i] # Blank /\ gText[i].usageMetadata # NoKey}
Last(S) == CHOOSE i \in S : \A j \in S : j <= i

\* C39: when retrieve_batch has returned for a succeeded job, the findings of
\* its result are those parsed from the last line with candidate text alone
\* (none when no line has any), and the recorded usage is the one of the last
\* line with usage metadata.
C39_LastLineWins ==
    (gpc = "returned" /\ gOp.op = "retrieve_batch"
                      /\ gOp.state_name = "JOB_STATE_SUCCEEDED")
        => /\ gResult.findings
                 = IF CandidateLines = {} THEN <<>>
                   ELSE ParseText(gText[Last(CandidateLines)].response.text,
                                  gOp.default_focus)
           /\ UsageLines # {}
                 => gUsage = BatchUsage(gText[Last(UsageLines)].usageMetadata)

\* Two lines with a finding each, of different wording and usage: the result
\* has the second line's finding only
C39_Witness ==
    /\ gpc = "returned" /\ gOp.op = "retrieve_batch"
    /\ Len(gText) = 2 /\ CandidateLines = {1, 2} /\ UsageLines = {1, 2}
    /\ Len(gText[1].response.text) = 1
    /\ Len(gResult.findings) = 1
    /\ gText[1].response.text # gText[2].response.text
    /\ gText[1].usageMetadata # gText[2].usageMetadata
    /\ gUsage = BatchUsage(gText[2].usageMetadata)

\* The batch ids written in the ledger file, read off its text
HandlesInFile(file) ==
    IF file.exists /\ Decodes(file.text)
    THEN {Member(file.text[3][2][i], "batch_id") : i \in 1..Len(file.text[3][2])}
    ELSE {}

\* C40 (as stated): when a submit_audit and a retrieve_audit that ran interleaved have
\* both returned, every batch the submit_audit put into the ledger is still
\* in the ledger or was polled by the retrieve_audit.
C40_NoHandleLostUnpolled ==
    (spc = "returned" /\ RetrieveReturned)
        => \A b \in IdsOf(pending.batches) :
              b \in LedgerIds \/ \E i \in 1..Len(rPolls) : rPolls[i].batch_id = b

\* C40 (amended): a retrieve_audit whose ledger was not written again since
\* it read it, as when the invocations are serialized, returns with every
\* batch id the file held still in the file or polled by it.
C40_UnwrittenLedgerLosesNoHandle ==
    [][(rpc = "loop" /\ rpc' = "returned" /\ LedgerHolds(rPending))
          => \A b \in HandlesInFile(ledger) :
                \/ b \in HandlesInFile(ledger')
                \/ \E i \in 1..Len(rPolls') : rPolls'[i].batch_id = b]_vars

\* A retrieve_audit begun after the submit_audit of two batches had returned
\* has polled both and removed the ledger
C40_Witness ==
    /\ RetrieveReturned /\ spc = "idle"
    /\ ~ledger.exists
    /\ Len(rPending.batches) = 2
    /\ PolledIds = PendingIds(rPending)

====
